---- MODULE Spec2Model ----
(***************************************************************************)
(* Model of the webcam video-filter application: the clap gesture detector *)
(* (app.js createClapDetector), the landmark-inference loop and session    *)
(* start/stop (app.js), and the FilterPipeline caches (filters.js).        *)
(*                                                                         *)
(* Distances are exact rationals <<num, den>> with den > 0; times are      *)
(* integer milliseconds of performance.now().                              *)
(***************************************************************************)
EXTENDS Integers, Sequences, FiniteSets, TLC

(* ---------- bounds of the model ---------- *)
\* last timestamp handed to the clap detector when it is driven directly
MaxNow == 900

(* ---------- rationals ---------- *)
Lt(a, b) == a[1] * b[2] < b[1] * a[2]
Gt(a, b) == Lt(b, a)
Ge(a, b) == ~Lt(a, b)
Le(a, b) == ~Lt(b, a)

(* ---------- createClapDetector: constants ---------- *)
\* JS null of a timestamp field
null == -1
thresholdRel == <<16, 100>>
minDurationMs == 90
cooldownMs == 650
hysteresisUp == <<thresholdRel[1] * 135, thresholdRel[2] * 100>>

VARIABLES
  now,            \* performance.now(): the timestamp of the latest call
  belowSince,     \* clap detector: start of the dwell, or null
  cooldownUntil,  \* clap detector: cooldown deadline
  inClapZone,     \* clap detector: in-zone flag
  ret,            \* return value of the latest update call
  lastBoth,       \* bothHands of the latest update call
  lastNear,       \* the latest call had both hands and distNorm <= hysteresisUp
  calls,          \* has update been called at all
  runStart,       \* history: timestamp of the first call of the current run
                  \* of consecutive calls with distNorm < thresholdRel
  handsAlways,    \* history: every call so far had bothHands = true
  lastTrigger,    \* history: timestamp of the latest trigger, or null
  linger,         \* history: a trigger happened and every later call had
                  \* both hands and distNorm <= hysteresisUp
  zoneExit,       \* history: since the latest trigger some call put the
                  \* detector out of zone
  example,        \* history: return values while the calls so far are the
                  \* dwell example (0.05 at 0, 50, 100), <<-1>> once they differ
  apart,          \* history: since the latest trigger some call had both
                  \* hands and distNorm > hysteresisUp
  prevTrigger,    \* history: timestamp of the trigger before the latest, or null
  cancelled,      \* history: since the call that followed the trigger before
                  \* the latest call, some call found a dwell pending and
                  \* had both hands and distNorm >= thresholdRel
  lateRun,        \* history: timestamp of the first call of the current run
                  \* of consecutive calls with distNorm < thresholdRel made at
                  \* or after the cooldown deadline
  pipeline,       \* FilterPipeline: w, h, pixelCanvas, edgeCache, lutCache
  target,         \* the image held by the canvas that apply draws into
  pipeHist,       \* history: LUT builds per key, the recompute flag of every
                  \* EdgeDetect call, was the pipeline resized since a build
  filterIndex,    \* state.filterIndex
  handsBusy,      \* state.handsBusy
  lastHandsSend,  \* state.lastHandsSend
  handsResults,   \* state.handsResults: <<>> for null, else <<results>>
  videoReady,     \* state.videoReady
  rafPending,     \* rafId names a draw callback that is scheduled
  stream,         \* video.srcObject holds a camera stream
  starting,       \* start() calls waiting for the camera
  offscreen,      \* the offscreen canvas: width, height
  leftSmoother,   \* pt of the left smoother: <<>> for null, else <<point>>
  rightSmoother,  \* pt of the right smoother
  inflight,       \* hands.send requests outstanding, oldest first
  resHist,        \* history of the landmark results handled
  \* history of the filter changes
  keyHist,        \* the last change, the index before it, the run of next calls
  \* a pure function under evaluation
  calcIn,         \* its arguments
  calcOut         \* <<>> before the call, else <<its result>>

detVars == <<belowSince, cooldownUntil, inClapZone>>
histVars == <<ret, lastBoth, lastNear, calls, runStart, handsAlways, lastTrigger,
              linger, zoneExit, example, apart, prevTrigger,
              cancelled, lateRun>>
clapVars == <<detVars, histVars>>
pipeVars == <<pipeline, target, pipeHist>>
appVars == <<filterIndex, handsBusy, lastHandsSend, handsResults, videoReady,
             rafPending, stream, starting, offscreen, leftSmoother,
             rightSmoother, inflight, resHist>>
calcVars == <<calcIn, calcOut>>
vars == <<now, clapVars, pipeVars, appVars, keyHist, calcVars>>

(* ---------- createClapDetector.update, branch by branch ---------- *)
DetState == [belowSince |-> belowSince, cooldownUntil |-> cooldownUntil,
             inClapZone |-> inClapZone]

\* if (!bothHands) { belowSince = null; inClapZone = false; return false; }
HandsLost_keepZone(s) == [s EXCEPT !.belowSince = null]
HandsLost(s) == [s EXCEPT !.belowSince = null, !.inClapZone = FALSE]

\* if (now < cooldownUntil) return false;
InCooldown_off(s, t) == FALSE
InCooldown(s, t) == t < s.cooldownUntil

\* now - belowSince >= minDurationMs
DwellDone_strict(since, t) == t - since > minDurationMs
DwellDone(since, t) == t - since >= minDurationMs

\* inClapZone && distNorm > hysteresisUp
LeavesZone_never(s, d) == FALSE
LeavesZone_noHysteresis(s, d) == s.inClapZone /\ Ge(d, thresholdRel)
LeavesZone(s, d) == s.inClapZone /\ Gt(d, hysteresisUp)

\* else if (!inClapZone && distNorm >= thresholdRel) { belowSince = null; }
ClearDwell_keep(s) == s
ClearDwell(s) == [s EXCEPT !.belowSince = null]

\* the state after update(distNorm, bothHands, now) and its return value
UpdateResult(s, d, both, t) ==
  IF ~both THEN [st |-> HandsLost(s), ret |-> FALSE]
  ELSE IF InCooldown(s, t) THEN [st |-> s, ret |-> FALSE]
  ELSE IF ~s.inClapZone /\ Lt(d, thresholdRel) THEN
    LET since == IF s.belowSince = null THEN t ELSE s.belowSince IN
    IF DwellDone(since, t)
    THEN [st |-> [belowSince |-> null, cooldownUntil |-> t + cooldownMs,
                  inClapZone |-> TRUE],
          ret |-> TRUE]
    ELSE [st |-> [s EXCEPT !.belowSince = since], ret |-> FALSE]
  ELSE IF LeavesZone(s, d) THEN
    [st |-> [s EXCEPT !.inClapZone = FALSE], ret |-> FALSE]
  ELSE IF ~s.inClapZone /\ Ge(d, thresholdRel) THEN
    [st |-> ClearDwell(s), ret |-> FALSE]
  ELSE [st |-> s, ret |-> FALSE]

\* the dwell example of the detector: 0.05 held at t = 0, 50, 100
ExampleD == <<5, 100>>
ExampleT == <<0, 50, 100>>

\* one call clapDetector.update(d, both, t), with the history it leaves
update(d, both, t) ==
  LET r == UpdateResult(DetState, d, both, t)
      below == both /\ Lt(d, thresholdRel)
      exits == ~both \/ (~InCooldown(DetState, t) /\ inClapZone /\ Gt(d, hysteresisUp))
      k == Len(example) + 1
  IN /\ belowSince' = r.st.belowSince
     /\ cooldownUntil' = r.st.cooldownUntil
     /\ inClapZone' = r.st.inClapZone
     /\ ret' = r.ret
     /\ lastBoth' = both
     /\ lastNear' = (both /\ Le(d, hysteresisUp))
     /\ calls' = TRUE
     /\ runStart' = IF below THEN (IF runStart = null THEN t ELSE runStart) ELSE null
     /\ handsAlways' = (handsAlways /\ both)
     /\ lastTrigger' = IF r.ret THEN t ELSE lastTrigger
     /\ linger' = IF r.ret THEN TRUE ELSE (linger /\ both /\ Le(d, hysteresisUp))
     /\ zoneExit' = IF r.ret THEN FALSE ELSE (zoneExit \/ exits)
     /\ example' = IF example # <<-1>> /\ k <= Len(ExampleT) /\ both
                      /\ d = ExampleD /\ t = ExampleT[k]
                   THEN Append(example, IF r.ret THEN 1 ELSE 0)
                   ELSE <<-1>>
     /\ apart' = IF r.ret THEN FALSE ELSE (apart \/ (both /\ Gt(d, hysteresisUp)))
     /\ prevTrigger' = IF r.ret THEN lastTrigger ELSE prevTrigger
     /\ cancelled' = IF both /\ belowSince # null /\ Ge(d, thresholdRel)
                     THEN TRUE ELSE (~ret /\ cancelled)
     /\ lateRun' = IF below /\ t >= cooldownUntil
                   THEN (IF lateRun = null THEN t ELSE lateRun) ELSE null

(* ---------- inputs of the detector ---------- *)
\* distances tried: below the threshold, on it, in the hysteresis band, on
\* hysteresisUp, above it
Dists == {<<5, 100>>, <<16, 100>>, <<20, 100>>, <<216, 1000>>, <<30, 100>>}
\* timestamps tried: every 50 ms and 40 ms after that, so that a dwell of
\* exactly minDurationMs and a call exactly on the cooldown deadline happen
Times == {t \in 0..MaxNow : t % 50 \in {0, 40}}
\* time between two calls
ClapSteps == {0, 10, 40, 50, 650}

InitDet ==
  /\ belowSince = null
  /\ cooldownUntil = 0
  /\ inClapZone = FALSE
  /\ ret = FALSE
  /\ lastBoth = FALSE
  /\ lastNear = FALSE
  /\ calls = FALSE
  /\ runStart = null
  /\ handsAlways = TRUE
  /\ lastTrigger = null
  /\ linger = FALSE
  /\ zoneExit = FALSE
  /\ example = <<>>
  /\ apart = FALSE
  /\ prevTrigger = null
  /\ cancelled = FALSE
  /\ lateRun = null


(* ---------- filters.js: FilterList and FilterPipeline ---------- *)
\* apply calls on one pipeline with the EdgeDetect key
MaxFrames == 5

LUT_SIZE == 17

FilterList == <<
  [key |-> "normal", kind |-> "css", value |-> "none", strength |-> <<1, 1>>],
  [key |-> "wkw_neon", kind |-> "lut", value |-> "lookWongKarWaiNeon",
   strength |-> <<1, 1>>],
  [key |-> "wkw_verdant", kind |-> "lut", value |-> "lookWongKarWaiVerdant",
   strength |-> <<95, 100>>],
  [key |-> "wes_pastel", kind |-> "lut", value |-> "lookWesAndersonPastel",
   strength |-> <<95, 100>>],
  [key |-> "wes_vintage", kind |-> "lut", value |-> "lookWesAndersonVintageWarm",
   strength |-> <<95, 100>> ] >>

FilterKeys == {FilterList[i].key : i \in 1..Len(FilterList)}
LutKeys == {FilterList[i].key : i \in {j \in 1..Len(FilterList) : FilterList[j].kind = "lut"}}

\* FilterList.find(f => f.key === filterKey): the index, 0 when none
FindMeta(filterKey) ==
  IF filterKey \in FilterKeys
  THEN CHOOSE i \in 1..Len(FilterList) : FilterList[i].key = filterKey
  ELSE 0

\* an image: what was drawn (op), from which video frame (src), with which
\* filter string or key (arg), through which table build (lut, 0 when none,
\* hit when the table came from the cache), through a scratch of sw x sh, at
\* fw x fh pixels
Image(op, src, arg, lut, hit, sw, sh, fw, fh) ==
  [op |-> op, src |-> src, arg |-> arg, lut |-> lut, hit |-> hit,
   sw |-> sw, sh |-> sh, fw |-> fw, fh |-> fh]
\* no image: a blank canvas, edgeCache.imageData = null
NoImage == Image("blank", 0, "", 0, FALSE, 0, 0, 0, 0)

\* Math.round(a / b) for a >= 0, b > 0
Round_floor(a, b) == a \div b
Round(a, b) == (2 * a + b) \div (2 * b)
Max(a, b) == IF a >= b THEN a ELSE b

\* new FilterPipeline(): a canvas element starts at 300 x 150
NewPipeline ==
  [w |-> 0, h |-> 0,
   pixelCanvas |-> [width |-> 300, height |-> 150],
   edgeCache |-> [imageData |-> NoImage, lastUpdateTs |-> 0, frameCounter |-> 0,
                  skip |-> 1],
   lutCache |-> <<>>]

NewPipeHist ==
  [lutBuilds |-> [k \in LutKeys |-> 0], edgeLog |-> <<>>, resized |-> FALSE,
   lastKey |-> ""]

\* resize(w, h)
Resize(p, nw, nh) ==
  IF p.w = nw /\ p.h = nh THEN p
  ELSE [p EXCEPT !.w = nw, !.h = nh,
                 !.pixelCanvas = [width |-> Max(32, Round(nw, 24)),
                                  height |-> Max(32, Round(nh, 24))]]

\* drawMirrored(ctx, source, w, h, filterStr)
DrawMirrored(src, fw, fh, filterStr) ==
  Image("mirror", src, filterStr, 0, FALSE, 0, 0, fw, fh)

\* sobelEdge(frame, w, h) of the image the canvas holds
SobelEdge(img, fw, fh) == Image("sobel", img.src, img.arg, 0, FALSE, 0, 0, fw, fh)

\* getOrCreateLUT(meta): the cache afterwards, the table, was it built now
GetOrCreateLUT_rebuild(cache, meta, builds) ==
  LET built == [size |-> LUT_SIZE, look |-> meta.value, build |-> builds + 1]
  IN [cache |-> [k \in DOMAIN cache \cup {meta.key} |->
                   IF k = meta.key THEN built ELSE cache[k]],
      table |-> built, built |-> TRUE]
GetOrCreateLUT(cache, meta, builds) ==
  IF meta.key \in DOMAIN cache
  THEN [cache |-> cache, table |-> cache[meta.key], built |-> FALSE]
  ELSE LET built == [size |-> LUT_SIZE, look |-> meta.value, build |-> builds + 1]
       IN [cache |-> [k \in DOMAIN cache \cup {meta.key} |->
                        IF k = meta.key THEN built ELSE cache[k]],
           table |-> built, built |-> TRUE]

\* const shouldCompute = (ec.frameCounter % (ec.skip + 1)) === 0 || !ec.imageData
\* (ec after frameCounter++)
ShouldCompute_noFirst(ec) == ec.frameCounter % (ec.skip + 1) = 0
ShouldCompute(ec) ==
  ec.frameCounter % (ec.skip + 1) = 0 \/ ec.imageData = NoImage

\* the pipeline, the canvas and the history after a call, as one record
PipeState(p, img, hist) == [p |-> p, img |-> img, hist |-> hist]

\* renderLUT(offCtx, video, meta)
RenderLUT(p, img, hist, src, meta) ==
  LET got == GetOrCreateLUT(p.lutCache, meta, hist.lutBuilds[meta.key])
  IN PipeState([p EXCEPT !.lutCache = got.cache],
               Image("lut", src, meta.key, got.table.build, ~got.built, 0, 0, p.w, p.h),
               IF got.built
               THEN [hist EXCEPT !.lutBuilds[meta.key] = @ + 1, !.resized = FALSE]
               ELSE hist)

\* renderPixelate(offCtx, video)
RenderPixelate(p, img, hist, src) ==
  PipeState(p,
            Image("pixelate", src, "none", 0, FALSE,
                  p.pixelCanvas.width, p.pixelCanvas.height, p.w, p.h),
            hist)

\* renderEdge(offCtx, video), called at time t
RenderEdge(p, img, hist, src, t) ==
  LET mirrored == DrawMirrored(src, p.w, p.h, "none")
      ec1 == [p.edgeCache EXCEPT !.frameCounter = @ + 1]
      compute == ShouldCompute(ec1)
      ec2 == IF compute
             THEN [ec1 EXCEPT !.imageData = SobelEdge(mirrored, p.w, p.h),
                              !.lastUpdateTs = t]
             ELSE ec1
  IN PipeState([p EXCEPT !.edgeCache = ec2],
               IF ec2.imageData # NoImage THEN ec2.imageData ELSE mirrored,
               [hist EXCEPT !.edgeLog = Append(@, compute)])

\* if (!w || !h) return;
ZeroSize_both(p) == p.w = 0 /\ p.h = 0
ZeroSize(p) == p.w = 0 \/ p.h = 0

\* Fallback: drawMirrored(offCtx, video, w, h, 'none')
Fallback_keep(p, img, hist, src) == PipeState(p, img, hist)
Fallback(p, img, hist, src) ==
  PipeState(p, DrawMirrored(src, p.w, p.h, "none"), hist)

\* apply(offCtx, video, filterKey), called at time t
Apply(p, img, hist, src, filterKey, t) ==
  LET i == FindMeta(filterKey)
      kind == IF i = 0 THEN "" ELSE FilterList[i].kind
  IN IF ZeroSize(p) THEN PipeState(p, img, hist)
     ELSE IF kind \in {"css", "simple"}
       THEN PipeState(p, DrawMirrored(src, p.w, p.h, FilterList[i].value), hist)
     ELSE IF kind = "lut" THEN RenderLUT(p, img, hist, src, FilterList[i])
     ELSE IF kind = "pixelate" THEN RenderPixelate(p, img, hist, src)
     ELSE IF kind = "edge" THEN RenderEdge(p, img, hist, src, t)
     ELSE IF filterKey = "pixelate" THEN RenderPixelate(p, img, hist, src)
     ELSE IF filterKey = "edge" THEN RenderEdge(p, img, hist, src, t)
     ELSE Fallback(p, img, hist, src)

(* ---------- inputs of the pipeline ---------- *)
\* video frames handed to apply
Frames == {1, 2}
\* sizes handed to resize
Sizes == {<<0, 0>>, <<640, 0>>, <<780, 1092>>, <<1920, 1080>>}
\* keys handed to apply: the list's, the two special keys, an unknown one
ApplyKeys == FilterKeys \cup {"pixelate", "edge", "sketch"}

InitPipe ==
  /\ pipeline = NewPipeline
  /\ target = NoImage
  /\ pipeHist = NewPipeHist

(* ---------- app.js: session, draw loop, landmark results ---------- *)
\* latest performance.now() of a session
MaxAppNow == 200
\* start() calls that may wait for the camera at once
MaxStarts == 2

\* the camera's frame size
VideoW == 1920
VideoH == 1080
\* minimum time between two hands.send calls
SendGapMs == 33
\* makePointSmoother(0.4)
alpha == <<4, 10>>

RECURSIVE Gcd(_, _)
Gcd(a, b) == IF b = 0 THEN a ELSE Gcd(b, a % b)
Abs(a) == IF a < 0 THEN -a ELSE a
\* a rational in lowest terms
Norm(a) == LET g == Gcd(Abs(a[1]), a[2]) IN <<a[1] \div g, a[2] \div g>>
RAdd(a, b) == Norm(<<a[1] * b[2] + b[1] * a[2], a[2] * b[2]>>)
RSub(a, b) == Norm(<<a[1] * b[2] - b[1] * a[2], a[2] * b[2]>>)
RMul(a, b) == Norm(<<a[1] * b[1], a[2] * b[2]>>)
RAbs(a) == <<Abs(a[1]), a[2]>>
Whole(n) == <<n, 1>>

\* reset() { pt = null; }
Reset_keep(sm) == sm
Reset(sm) == <<>>
\* push of a smoother whose first sample is pulled toward the origin
Push_fromOrigin(sm, x, y) ==
  LET at == IF sm = <<>> THEN [x |-> <<0, 1>>, y |-> <<0, 1>>] ELSE sm[1]
  IN <<[x |-> RAdd(RMul(at.x, RSub(Whole(1), alpha)), RMul(x, alpha)),
        y |-> RAdd(RMul(at.y, RSub(Whole(1), alpha)), RMul(y, alpha))]>>
\* push(x, y) of a smoother whose pt is sm: the new pt
Push(sm, x, y) ==
  IF sm = <<>> THEN <<[x |-> x, y |-> y]>>
  ELSE <<[x |-> RAdd(RMul(sm[1].x, RSub(Whole(1), alpha)), RMul(x, alpha)),
          y |-> RAdd(RMul(sm[1].y, RSub(Whole(1), alpha)), RMul(y, alpha))]>>

\* video.videoWidth, video.videoHeight: 0 without a stream
VideoWidth == IF stream THEN VideoW ELSE 0
VideoHeight == IF stream THEN VideoH ELSE 0
\* a || b || 1
OrElse(a, b) == IF a # 0 THEN a ELSE IF b # 0 THEN b ELSE 1
Min(a, b) == IF a <= b THEN a ELSE b

\* Math.sqrt(dx*dx + dy*dy) / Math.min(vw, vh) for palms level with each other
\* (dy = 0), where the root is |dx|
NormDist(ls, rs) ==
  LET vw == OrElse(VideoWidth, offscreen.width)
      vh == OrElse(VideoHeight, offscreen.height)
      dx == RMul(RSub(ls.x, rs.x), Whole(vw))
  IN RMul(RAbs(dx), <<1, Min(vw, vh)>>)

\* nextFilter(): the new index
NextIndex_skip(i) == (i + 2) % Len(FilterList)
NextIndex(i) == (i + 1) % Len(FilterList)
\* (state.filterIndex - 1 + FilterList.length) % FilterList.length
PrevIndex_noWrap(i) == IF i = 0 THEN 0 ELSE i - 1
PrevIndex(i) == (i - 1 + Len(FilterList)) % Len(FilterList)

\* no filter change yet
NewKeyHist == [last |-> "", before |-> 0, runStart |-> 0, runLen |-> 0]

\* the history after a change of kind op made at index i
Changed(h, op, i) ==
  LET more == op = "next" /\ h.last = "next" /\ h.runLen < Len(FilterList)
  IN [last |-> op, before |-> i,
      runStart |-> IF more THEN h.runStart ELSE i,
      runLen |-> IF op # "next" THEN 0 ELSE IF more THEN h.runLen + 1 ELSE 1]

\* nextFilter()
NextFilter ==
  /\ filterIndex' = NextIndex(filterIndex)
  /\ keyHist' = Changed(keyHist, "next", filterIndex)

\* prevFilter()
PrevFilter ==
  /\ filterIndex' = PrevIndex(filterIndex)
  /\ keyHist' = Changed(keyHist, "prev", filterIndex)

\* !state.handsBusy && now - state.lastHandsSend > 33 && video.readyState >= 2
CanSend_noBusy(busy, last, t, ready) == t - last > SendGapMs /\ ready
CanSend(busy, last, t, ready) == ~busy /\ t - last > SendGapMs /\ ready

\* landmark results: palm centres of the hands labelled left and right, <<>>
\* for a hand that is not in the result
Palm(x) == <<[x |-> x, y |-> <<1, 2>>]>>
Results ==
  { [left |-> Palm(<<9, 20>>), right |-> Palm(<<1, 2>>)],
    [left |-> Palm(<<1, 10>>), right |-> Palm(<<1, 2>>)],
    [left |-> Palm(<<9, 20>>), right |-> <<>>],
    [left |-> <<>>, right |-> Palm(<<1, 2>>)] }

\* time between two events
AppSteps == {25, 50}

\* app.js once the module has run: start() waits for the camera
InitApp ==
  /\ filterIndex = 0
  /\ handsBusy = FALSE
  /\ lastHandsSend = 0
  /\ handsResults = <<>>
  /\ videoReady = FALSE
  /\ rafPending = FALSE
  /\ stream = FALSE
  /\ starting = 1
  /\ offscreen = [width |-> 300, height |-> 150]
  /\ leftSmoother = <<>>
  /\ rightSmoother = <<>>
  /\ inflight = <<>>
  /\ resHist = [both |-> FALSE, fired |-> FALSE, broken |-> FALSE,
                firedBroken |-> FALSE]
  /\ keyHist = NewKeyHist

\* no pure function is under evaluation
InitCalc == calcIn = <<>> /\ calcOut = <<>>

\* the state once the module has run
Init == now = 0 /\ InitDet /\ InitPipe /\ InitApp /\ InitCalc

\* the body of draw() once the next frame is requested
Draw(src, ready) ==
  IF ~videoReady
  THEN UNCHANGED <<offscreen, pipeVars, handsBusy, lastHandsSend, inflight>>
  ELSE
    LET differs == offscreen.width # VideoWidth \/ offscreen.height # VideoHeight
        p1 == IF differs THEN Resize(pipeline, VideoWidth, VideoHeight) ELSE pipeline
        h1 == IF p1 # pipeline /\ DOMAIN pipeline.lutCache # {}
              THEN [pipeHist EXCEPT !.resized = TRUE] ELSE pipeHist
        img1 == IF differs THEN NoImage ELSE target
        r == Apply(p1, img1, h1, src, FilterList[filterIndex + 1].key, now)
    IN /\ offscreen' = [width |-> VideoWidth, height |-> VideoHeight]
       /\ pipeline' = r.p
       /\ target' = r.img
       /\ pipeHist' = r.hist
       /\ IF CanSend(handsBusy, lastHandsSend, now, stream /\ ready)
          THEN /\ handsBusy' = TRUE
               /\ lastHandsSend' = now
               /\ inflight' = Append(inflight, [phase |-> "sent", stale |-> FALSE])
          ELSE UNCHANGED <<handsBusy, lastHandsSend, inflight>>

\* a requestAnimationFrame callback runs draw
DrawTick ==
  /\ rafPending
  /\ \E src \in Frames, ready \in BOOLEAN : Draw(src, ready)
  /\ UNCHANGED <<keyHist, calcVars, now, clapVars, filterIndex, handsResults, videoReady, rafPending,
                 stream, starting, leftSmoother, rightSmoother, resHist>>

\* the clock advances
Tick ==
  /\ \E dt \in AppSteps : now + dt <= MaxAppNow /\ now' = now + dt
  /\ UNCHANGED <<keyHist, calcVars, clapVars, pipeVars, appVars>>

\* start() past initHands: the camera is granted, initCamera completes and
\* startDrawLoop runs draw once
CameraGranted ==
  /\ starting > 0
  /\ starting' = starting - 1
  /\ stream' = TRUE
  /\ videoReady' = TRUE
  /\ rafPending' = TRUE
  /\ \E src \in Frames :
       LET differs == offscreen.width # VideoW \/ offscreen.height # VideoH
           p1 == IF differs THEN Resize(pipeline, VideoW, VideoH) ELSE pipeline
           h1 == IF p1 # pipeline /\ DOMAIN pipeline.lutCache # {}
                 THEN [pipeHist EXCEPT !.resized = TRUE] ELSE pipeHist
           img1 == IF differs THEN NoImage ELSE target
           r == Apply(p1, img1, h1, src, FilterList[filterIndex + 1].key, now)
       IN /\ offscreen' = [width |-> VideoW, height |-> VideoH]
          /\ pipeline' = r.p
          /\ target' = r.img
          /\ pipeHist' = r.hist
          /\ IF CanSend(handsBusy, lastHandsSend, now, TRUE)
             THEN /\ handsBusy' = TRUE
                  /\ lastHandsSend' = now
                  /\ inflight' = Append(inflight, [phase |-> "sent", stale |-> FALSE])
             ELSE UNCHANGED <<handsBusy, lastHandsSend, inflight>>
  /\ UNCHANGED <<keyHist, calcVars, now, clapVars, filterIndex, handsResults, leftSmoother,
                 rightSmoother, resHist>>

\* start() past initHands: getUserMedia rejects, start shows the error
CameraDenied ==
  /\ starting > 0
  /\ starting' = starting - 1
  /\ UNCHANGED <<keyHist, calcVars, now, clapVars, pipeVars, filterIndex, handsBusy, lastHandsSend,
                 handsResults, videoReady, rafPending, stream, offscreen,
                 leftSmoother, rightSmoother, inflight, resHist>>

\* .then(() => { state.handsBusy = false; })
OnFulfilled(busy) == FALSE
\* .catch(() => { state.handsBusy = false; })
OnRejected_keep(busy) == busy
OnRejected(busy) == FALSE

\* stop(): the fields it leaves
StopInflight(reqs) == [i \in 1..Len(reqs) |-> [reqs[i] EXCEPT !.stale = TRUE]]

\* the retry button: hideError(); stop(); start()
RetryClick ==
  /\ starting < MaxStarts
  /\ rafPending' = FALSE
  /\ stream' = FALSE
  /\ videoReady' = FALSE
  /\ inflight' = StopInflight(inflight)
  /\ starting' = starting + 1
  /\ UNCHANGED <<keyHist, calcVars, now, clapVars, pipeVars, filterIndex, handsBusy, lastHandsSend,
                 handsResults, offscreen, leftSmoother, rightSmoother, resHist>>

\* onHandsResults(results)
OnHandsResults(results) ==
  /\ handsResults' = <<results>>
  /\ LET both == results.left # <<>> /\ results.right # <<>>
     IN IF ~both
        THEN /\ leftSmoother' = Reset(leftSmoother)
             /\ rightSmoother' = Reset(rightSmoother)
             /\ resHist' = [resHist EXCEPT !.both = FALSE, !.fired = FALSE,
                                           !.broken = @ \/ belowSince # null]
             /\ UNCHANGED <<clapVars, filterIndex, keyHist>>
        ELSE
          LET ls == Push(leftSmoother, results.left[1].x, results.left[1].y)
              rs == Push(rightSmoother, results.right[1].x, results.right[1].y)
              norm == NormDist(ls[1], rs[1])
          IN /\ leftSmoother' = ls
             /\ rightSmoother' = rs
             /\ update(norm, TRUE, now)
             /\ IF ret' THEN NextFilter ELSE UNCHANGED <<filterIndex, keyHist>>
             /\ resHist' =
                  [both |-> TRUE,
                   fired |-> ret',
                   firedBroken |-> IF ret' THEN resHist.broken
                                   ELSE resHist.firedBroken,
                   broken |-> IF belowSince = null THEN FALSE
                              ELSE IF ret' THEN FALSE
                              ELSE resHist.broken \/ Ge(norm, thresholdRel)]

\* an outstanding request delivers its results to onHandsResults
HandsDeliver ==
  \E i \in 1..Len(inflight), results \in Results :
    /\ inflight[i].phase = "sent"
    /\ inflight' = [inflight EXCEPT ![i].phase = "delivered"]
    /\ OnHandsResults(results)
    /\ UNCHANGED <<calcVars, now, pipeVars, handsBusy, lastHandsSend, videoReady, rafPending,
                   stream, starting, offscreen>>

\* hands.send(...).then: the request resolved after its results were handled
HandsResolve ==
  \E i \in 1..Len(inflight) :
    /\ inflight[i].phase = "delivered"
    /\ inflight' = SubSeq(inflight, 1, i - 1) \o SubSeq(inflight, i + 1, Len(inflight))
    /\ handsBusy' = OnFulfilled(handsBusy)
    /\ UNCHANGED <<keyHist, calcVars, now, clapVars, pipeVars, filterIndex, lastHandsSend, handsResults,
                   videoReady, rafPending, stream, starting, offscreen,
                   leftSmoother, rightSmoother, resHist>>

\* hands.send(...).catch: the request failed
HandsReject ==
  \E i \in 1..Len(inflight) :
    /\ inflight[i].phase = "sent"
    /\ inflight' = SubSeq(inflight, 1, i - 1) \o SubSeq(inflight, i + 1, Len(inflight))
    /\ handsBusy' = OnRejected(handsBusy)
    /\ UNCHANGED <<keyHist, calcVars, now, clapVars, pipeVars, filterIndex, lastHandsSend, handsResults,
                   videoReady, rafPending, stream, starting, offscreen,
                   leftSmoother, rightSmoother, resHist>>

NextApp ==
  \/ Tick \/ CameraGranted \/ CameraDenied \/ RetryClick \/ DrawTick
  \/ HandsDeliver \/ HandsResolve \/ HandsReject

SpecApp == Init /\ [][NextApp]_vars

(* ---------- the filter changes: keyboard, list, clap ---------- *)
\* keydown Space: shiftKey ? prevFilter() : nextFilter()
KeySpace ==
  \E shiftKey \in BOOLEAN :
    /\ IF shiftKey THEN PrevFilter ELSE NextFilter
    /\ UNCHANGED <<now, clapVars, pipeVars, calcVars, handsBusy, lastHandsSend,
                   handsResults, videoReady, rafPending, stream, starting,
                   offscreen, leftSmoother, rightSmoother, inflight, resHist>>

\* click on item i of the list built from FilterList: state.filterIndex = i
ListClick ==
  \E i \in 0..(Len(FilterList) - 1) :
    /\ filterIndex' = i
    /\ keyHist' = Changed(keyHist, "click", filterIndex)
    /\ UNCHANGED <<now, clapVars, pipeVars, calcVars, handsBusy, lastHandsSend,
                   handsResults, videoReady, rafPending, stream, starting,
                   offscreen, leftSmoother, rightSmoother, inflight, resHist>>

\* time between two landmark results, ms
ResultSteps == {50, 100}

\* the hand tracker calls onHandsResults some time after the last call
ResultsArrive ==
  \E dt \in ResultSteps, results \in Results :
    /\ now + dt <= MaxAppNow
    /\ now' = now + dt
    /\ OnHandsResults(results)
    /\ UNCHANGED <<pipeVars, calcVars, handsBusy, lastHandsSend, videoReady,
                   rafPending, stream, starting, offscreen, inflight>>

NextKeys == KeySpace \/ ListClick \/ ResultsArrive

SpecKeys == Init /\ [][NextKeys]_vars

(* ---------- the pipeline driven directly ---------- *)
PipeResize ==
  \E size \in Sizes :
    /\ pipeline' = Resize(pipeline, size[1], size[2])
    /\ pipeHist' = IF pipeline' # pipeline /\ DOMAIN pipeline.lutCache # {}
                   THEN [pipeHist EXCEPT !.resized = TRUE, !.lastKey = ""]
                   ELSE [pipeHist EXCEPT !.lastKey = ""]
    /\ UNCHANGED <<keyHist, calcVars, target, now, clapVars, appVars>>

PipeApply ==
  \E src \in Frames, filterKey \in ApplyKeys :
    LET r == Apply(pipeline, target, pipeHist, src, filterKey, now)
    IN /\ Len(r.hist.edgeLog) <= MaxFrames
       /\ pipeline' = r.p
       /\ target' = r.img
       /\ pipeHist' = [r.hist EXCEPT !.lastKey = filterKey]
       /\ UNCHANGED <<keyHist, calcVars, now, clapVars, appVars>>

NextPipe == PipeResize \/ PipeApply

SpecPipe == Init /\ [][NextPipe]_vars

(* ---------- the canvas calls of the pipeline, pixel by pixel ---------- *)
\* a context's transform along x: device = a * user + e, a being 1 or -1
NoTransform == [a |-> 1, e |-> 0]
\* ctx.translate(tx, 0)
Translate(T, tx) == [T EXCEPT !.e = @ + T.a * tx]
\* ctx.scale(sx, 1)
Scale(T, sx) == [T EXCEPT !.a = @ * sx]
\* ctx.translate(w, 0); ctx.scale(-1, 1)
Mirror_none(w) == NoTransform
Mirror(w) == Scale(Translate(NoTransform, w), -1)

\* the source pixels nearest to position p / q of a source n pixels long; two
\* when the position lies on the border between two pixels
Nearest(p, q, n) ==
  IF p < 0 \/ p > q * n THEN {}
  ELSE IF p % q = 0 THEN {(p \div q) - 1, p \div q} \cap (0..(n - 1))
  ELSE {p \div q}

\* drawImage of a source n pixels wide onto the user columns 0..dw under
\* transform T, each device pixel taking the source pixel nearest to its
\* centre: the source columns device column X may show
DrawColumn(T, n, dw, X) == Nearest(T.a * (2 * X + 1 - 2 * T.e) * n, 2 * dw, n)
\* the same along y, which the pipeline never transforms
DrawRow(n, dh, Y) == Nearest((2 * Y + 1) * n, 2 * dh, n)

\* drawMirrored(ctx, source, w, h): the source pixels (of a vw x vh source)
\* that target pixel (x, y) may show
DrawMirroredAt(w, h, vw, vh, x, y) ==
  DrawColumn(Mirror(w), vw, w, x) \X DrawRow(vh, h, y)

\* renderPixelate, first drawImage: the source pixels scratch cell (cx, cy)
\* may hold
ScratchAt(sw, sh, vw, vh, cx, cy) ==
  DrawColumn(Mirror(sw), vw, sw, cx) \X DrawRow(vh, sh, cy)

\* renderPixelate, second drawImage: the scratch cells target pixel (x, y)
\* may show
PixelateAt_corner(w, h, sw, sh, x, y) == {<<(x * sw) \div w, (y * sh) \div h>>}
PixelateAt(w, h, sw, sh, x, y) ==
  DrawColumn(NoTransform, sw, w, x) \X DrawRow(sh, h, y)

\* the scratch canvas of a pipeline resized to w x h
ScratchOf(w, h) == Resize(NewPipeline, w, h).pixelCanvas

\* pipeline sizes drawn pixel by pixel
PixelSizes == {<<1920, 1080>>, <<780, 1092>>, <<96, 64>>}
\* pixels looked at from each end of a row or column
PixelSpan == 48
\* the coordinates looked at along a side of n pixels
Ends(n) == {c \in 0..(n - 1) : c < PixelSpan \/ c >= n - PixelSpan}
\* the pixels looked at: the ends of two rows and of two columns
Pixels(w, h) == (Ends(w) \X {0, h - 1}) \cup ({0, w - 1} \X Ends(h))
\* one pixel of one apply call: the key, the pipeline size, the size of the
\* video frame (the pipeline's or 640 x 480), the target pixel
PixelInputs ==
  UNION {{[key |-> k, w |-> size[1], h |-> size[2], vw |-> v[1], vh |-> v[2],
           x |-> xy[1], y |-> xy[2]] :
            k \in {"normal", "pixelate"}, v \in {size, <<640, 480>>},
            xy \in Pixels(size[1], size[2])} : size \in PixelSizes}

InitPixel ==
  /\ now = 0 /\ InitDet /\ InitPipe /\ InitApp
  /\ calcIn \in PixelInputs
  /\ calcOut = <<>>

\* apply with the key 'normal': the source pixel the target pixel shows
DrawNormalPixel ==
  /\ calcOut = <<>> /\ calcIn.key = "normal"
  /\ \E src \in DrawMirroredAt(calcIn.w, calcIn.h, calcIn.vw, calcIn.vh,
                                calcIn.x, calcIn.y) :
       calcOut' = <<[cell |-> <<0, 0>>, src |-> src]>>
  /\ UNCHANGED <<calcIn, now, clapVars, pipeVars, appVars, keyHist>>

\* apply with the key 'pixelate': the scratch cell the target pixel shows and
\* the source pixel that cell holds
DrawPixelatePixel ==
  /\ calcOut = <<>> /\ calcIn.key = "pixelate"
  /\ LET sc == ScratchOf(calcIn.w, calcIn.h)
     IN \E cell \in PixelateAt(calcIn.w, calcIn.h, sc.width, sc.height,
                                calcIn.x, calcIn.y) :
          \E src \in ScratchAt(sc.width, sc.height, calcIn.vw, calcIn.vh,
                                cell[1], cell[2]) :
            calcOut' = <<[cell |-> cell, src |-> src]>>
  /\ UNCHANGED <<calcIn, now, clapVars, pipeVars, appVars, keyHist>>

NextPixel == DrawNormalPixel \/ DrawPixelatePixel

SpecPixel == InitPixel /\ [][NextPixel]_vars

(* ---------- JS numbers: IEEE doubles, exactly ---------- *)
\* a natural number is a sequence of limbs, least significant first, in this
\* base, without leading zero limbs; <<>> is zero
\* F(e) with e computed before F is entered, as JS computes the operands of
\* an operator before it applies the operator
With(e, F(_)) == CHOOSE r \in {F(v) : v \in {e}} : TRUE

Base == 32768
LimbBits == 15

RECURSIVE BTrim(_)
BTrim(a) ==
  IF a = <<>> THEN a
  ELSE IF a[Len(a)] = 0 THEN BTrim(SubSeq(a, 1, Len(a) - 1)) ELSE a
\* a natural below Base * Base
BFrom(n) == BTrim(<<n % Base, n \div Base>>)
BToInt(a) ==
  (IF Len(a) >= 1 THEN a[1] ELSE 0) + (IF Len(a) >= 2 THEN a[2] * Base ELSE 0)
Limb(a, i) == IF i <= Len(a) THEN a[i] ELSE 0

RECURSIVE BAddC(_, _, _, _)
BAddC(a, b, i, c) ==
  IF i > Len(a) /\ i > Len(b) THEN (IF c = 0 THEN <<>> ELSE <<c>>)
  ELSE LET s == Limb(a, i) + Limb(b, i) + c
       IN <<s % Base>> \o BAddC(a, b, i + 1, s \div Base)
BAdd(a, b) == BAddC(a, b, 1, 0)

\* a - b for a >= b
RECURSIVE BSubC(_, _, _, _)
BSubC(a, b, i, c) ==
  IF i > Len(a) THEN <<>>
  ELSE LET s == Limb(a, i) - Limb(b, i) - c
       IN <<s % Base>> \o BSubC(a, b, i + 1, IF s < 0 THEN 1 ELSE 0)
BSub(a, b) == BTrim(BSubC(a, b, 1, 0))

RECURSIVE BCmpAt(_, _, _)
BCmpAt(a, b, i) ==
  IF i = 0 THEN 0
  ELSE IF a[i] # b[i] THEN (IF a[i] < b[i] THEN -1 ELSE 1)
  ELSE BCmpAt(a, b, i - 1)
\* -1, 0, 1 as a < b, a = b, a > b
BCmp(a, b) ==
  IF Len(a) # Len(b) THEN (IF Len(a) < Len(b) THEN -1 ELSE 1)
  ELSE BCmpAt(a, b, Len(a))

\* a * k for 0 <= k < Base
RECURSIVE BMulSmallC(_, _, _, _)
BMulSmallC(a, k, i, c) ==
  IF i > Len(a) THEN (IF c = 0 THEN <<>> ELSE <<c>>)
  ELSE LET s == a[i] * k + c
       IN <<s % Base>> \o BMulSmallC(a, k, i + 1, s \div Base)
BMulSmall(a, k) == IF k = 0 THEN <<>> ELSE BMulSmallC(a, k, 1, 0)

BShiftLimbs(a, n) == IF a = <<>> THEN a ELSE [i \in 1..n |-> 0] \o a

RECURSIVE BMulAt(_, _, _)
BMulAt(a, b, i) ==
  IF i > Len(b) THEN <<>>
  ELSE BAdd(BShiftLimbs(BMulSmall(a, b[i]), i - 1), BMulAt(a, b, i + 1))
BMul(a, b) == BMulAt(a, b, 1)

\* a * 2^n
BShl(a, n) == BShiftLimbs(BMulSmall(a, 2 ^ (n % LimbBits)), n \div LimbBits)

\* quotient limbs and remainder of a / k for 0 < k <= Base: hi is the result
\* for the limbs above limb i
BDivLimb(hi, limb, k) ==
  [q |-> <<(hi.r * Base + limb) \div k>> \o hi.q, r |-> (hi.r * Base + limb) % k]
RECURSIVE BDivAt(_, _, _)
BDivAt(a, k, i) ==
  IF i > Len(a) THEN [q |-> <<>>, r |-> 0]
  ELSE BDivLimb(BDivAt(a, k, i + 1), a[i], k)
BDivTrim(d) == [q |-> BTrim(d.q), r |-> d.r]
BDivSmall(a, k) == BDivTrim(BDivAt(a, k, 1))

\* floor(a / 2^n), and whether a one bit was dropped; nl limbs go whole
BShrOf(d, low) == [q |-> d.q, sticky |-> d.r # 0 \/ low]
BShrAt(a, n, nl) ==
  BShrOf(BDivSmall(SubSeq(a, nl + 1, Len(a)), 2 ^ (n % LimbBits)),
         \E i \in 1..nl : a[i] # 0)
BShr(a, n) == BShrAt(a, n, Min(n \div LimbBits, Len(a)))

RECURSIVE BitLenSmall(_)
BitLenSmall(n) == IF n = 0 THEN 0 ELSE 1 + BitLenSmall(n \div 2)
BBitLen(a) ==
  IF a = <<>> THEN 0 ELSE LimbBits * (Len(a) - 1) + BitLenSmall(a[Len(a)])
BOdd(a) == a # <<>> /\ a[1] % 2 = 1

\* a number is (-1)^neg * m * 2^e with m odd, or zero
Zero == [neg |-> FALSE, m |-> <<>>, e |-> 0]
\* the number of zero bits at the low end of n > 0, and of a # <<>>
RECURSIVE LowZerosSmall(_)
LowZerosSmall(n) == IF n % 2 = 1 THEN 0 ELSE 1 + LowZerosSmall(n \div 2)
RECURSIVE BLowZeros(_)
BLowZeros(a) ==
  IF a[1] = 0 THEN LimbBits + BLowZeros(Tail(a)) ELSE LowZerosSmall(a[1])
FCanonBy(neg, m, e, z) == [neg |-> neg, m |-> BShr(m, z).q, e |-> e + z]
FCanon(neg, m, e) ==
  IF m = <<>> THEN Zero ELSE FCanonBy(neg, m, e, BLowZeros(m))

\* (-1)^neg * m * 2^e rounded to p significant bits, ties to even: s is m
\* without the bits below the first dropped one, q is m without the dropped
\* bits
FRoundUp(s, q) ==
  IF BOdd(s.q) /\ (s.sticky \/ BOdd(q)) THEN BAdd(q, <<1>>) ELSE q
FRoundHalf(s) == FRoundUp(s, BDivSmall(s.q, 2).q)
FRoundBy(neg, m, e, drop) ==
  FCanon(neg, IF drop <= 0 THEN m ELSE FRoundHalf(BShr(m, drop - 1)),
         IF drop <= 0 THEN e ELSE e + drop)
FRound(neg, m, e, p) == FRoundBy(neg, m, e, BBitLen(m) - p)
FRoundRec(x, p) == FRound(x.neg, x.m, x.e, p)

\* the significant bits of a double and of a Float32Array element
DoubleBits == 53
SingleBits == 24

FromInt(n) == FCanon(n < 0, BFrom(Abs(n)), 0)
FNeg(x) == IF x.m = <<>> THEN x ELSE [x EXCEPT !.neg = ~x.neg]

\* x + y, exactly: mx and my are the two mantissas at the common exponent e
FSumOf(xneg, yneg, mx, my, e) ==
  IF xneg = yneg THEN [neg |-> xneg, m |-> BAdd(mx, my), e |-> e]
  ELSE IF BCmp(mx, my) >= 0 THEN [neg |-> xneg, m |-> BSub(mx, my), e |-> e]
  ELSE [neg |-> yneg, m |-> BSub(my, mx), e |-> e]
FSumAt(x, y, e) ==
  FSumOf(x.neg, y.neg, BShl(x.m, x.e - e), BShl(y.m, y.e - e), e)
FSum(x, y) == FSumAt(x, y, Min(x.e, y.e))

\* the JS operators +, -, *, <, and / of two integers
FAdd(x, y) ==
  With(<<x, y>>, LAMBDA v : FRoundRec(FSum(v[1], v[2]), DoubleBits))
FSub(x, y) == FAdd(x, FNeg(y))
FMul(x, y) ==
  With(<<x, y>>, LAMBDA v : FRound(v[1].neg # v[2].neg, BMul(v[1].m, v[2].m),
                                   v[1].e + v[2].e, DoubleBits))
FNegative(x) == x.neg /\ x.m # <<>>
FLt(x, y) == With(<<x, y>>, LAMBDA v : FNegative(FSum(v[1], FNeg(v[2]))))
FDivOf(d) ==
  FRound(FALSE, BAdd(BMulSmall(d.q, 2), IF d.r = 0 THEN <<>> ELSE <<1>>),
         -76, DoubleBits)
FDivInt(i, k) == FDivOf(BDivSmall(BShl(BFrom(i), 75), k))
\* Math.floor(x) of a number of small magnitude
FFloorOf(neg, s) ==
  IF neg THEN -(BToInt(s.q) + (IF s.sticky THEN 1 ELSE 0)) ELSE BToInt(s.q)
FFloorAt(x) ==
  IF x.e >= 0 THEN (IF x.neg THEN -1 ELSE 1) * BToInt(BShl(x.m, x.e))
  ELSE FFloorOf(x.neg, BShr(x.m, -x.e))
FFloor(x) == With(x, FFloorAt)
\* storing into a Float32Array
Fround(x) == With(x, LAMBDA v : FRoundRec(v, SingleBits))

(* ---------- filters.js: colour helpers and the 3D LUT ---------- *)
One == FromInt(1)
Half == FDivInt(1, 2)

\* function clamp01(x) { return x < 0 ? 0 : (x > 1 ? 1 : x); }
clamp01(x) == IF FLt(x, Zero) THEN Zero ELSE IF FLt(One, x) THEN One ELSE x
\* function mix(a, b, t) { return a + (b - a) * t; }
mix_from_b(a, b, t) == FAdd(b, FMul(FSub(a, b), t))
mix(a, b, t) == FAdd(a, FMul(FSub(b, a), t))

\* transformFn(r, g, b) of generate3DLUT: stand-ins for the looks, one that
\* keeps the colour, one that inverts it, one that mixes the channels and
\* leaves [0, 1]
Looks == {"keep", "invert", "blend"}
Transform(look, r, g, b) ==
  IF look = "keep" THEN <<r, g, b>>
  ELSE IF look = "invert" THEN <<FSub(One, r), FSub(One, g), FSub(One, b)>>
  ELSE <<FSub(FMul(FromInt(2), r), Half), FMul(g, b), FAdd(r, b)>>

\* generate3DLUT(n, transformFn).data[o]: the loops store the three clamped
\* outputs of cell (ri, gi, bi) at idx++, bi running fastest
LutCell(n, look, ri, gi, bi, c) ==
  With(<<FDivInt(ri, n - 1), FDivInt(gi, n - 1), FDivInt(bi, n - 1)>>,
       LAMBDA v : With(Transform(look, v[1], v[2], v[3]),
                       LAMBDA out : Fround(clamp01(out[c]))))
LutData(n, look, o) ==
  LutCell(n, look, (o \div 3) \div (n * n), ((o \div 3) \div n) % n,
          (o \div 3) % n, (o % 3) + 1)

\* const idx = (ri, gi, bi) => ((ri * n + gi) * n + bi) * 3;
idx(n, ri, gi, bi) == ((ri * n + gi) * n + bi) * 3

\* [ mix(u[0], v[0], t), mix(u[1], v[1], t), mix(u[2], v[2], t) ]
mix3(u, v, t) == <<mix(u[1], v[1], t), mix(u[2], v[2], t), mix(u[3], v[3], t)>>
\* const c000 = [ d[i000], d[i000+1], d[i000+2] ]
corner(n, look, i) ==
  <<LutData(n, look, i), LutData(n, look, i + 1), LutData(n, look, i + 2)>>
\* lerp3(c0, c1, t) of the corners stored at i0 and i1
lerp3(n, look, i0, i1, t) ==
  With(<<corner(n, look, i0), corner(n, look, i1)>>,
       LAMBDA c : mix3(c[1], c[2], t))

\* x00, x10, x01, x11, then y0 and y1, then the returned colour
sampleCell(n, look, r0, r1, g0, g1, b0, b1, tr, tg, tb) ==
  With(<<lerp3(n, look, idx(n, r0, g0, b0), idx(n, r1, g0, b0), tr),
         lerp3(n, look, idx(n, r0, g1, b0), idx(n, r1, g1, b0), tr),
         lerp3(n, look, idx(n, r0, g0, b1), idx(n, r1, g0, b1), tr),
         lerp3(n, look, idx(n, r0, g1, b1), idx(n, r1, g1, b1), tr)>>,
       LAMBDA x : With(<<mix3(x[1], x[2], tg), mix3(x[3], x[4], tg)>>,
                       LAMBDA y : mix3(y[1], y[2], tb)))
\* r1 = Math.min(n - 1, r0 + 1)
axis1(n, i0) == Min(n - 1, i0 + 1)
\* r0, g0, b0 = Math.floor(rf), ..; r1 = Math.min(n - 1, r0 + 1), ..;
\* tr = rf - r0, ..
sampleAt(n, look, rf, gf, bf, r0, g0, b0) ==
  With(<<FSub(rf, FromInt(r0)), FSub(gf, FromInt(g0)), FSub(bf, FromInt(b0))>>,
       LAMBDA t : sampleCell(n, look, r0, axis1(n, r0), g0, axis1(n, g0),
                             b0, axis1(n, b0), t[1], t[2], t[3]))
\* sampleLUT3D(lut, r, g, b) for lut = generate3DLUT(n, look)
sampleLUT3D(n, look, r, g, b) ==
  With(<<FMul(r, FromInt(n - 1)), FMul(g, FromInt(n - 1)),
         FMul(b, FromInt(n - 1))>>,
       LAMBDA f : sampleAt(n, look, f[1], f[2], f[3],
                           FFloor(f[1]), FFloor(f[2]), FFloor(f[3])))

\* largest table size tried
MaxLutSize == 23
\* lattice triples tried: each axis in full, the diagonal
Lattice(n) ==
  UNION {{<<i, 0, n - 1>>, <<n - 1, i, 0>>, <<0, n - 1, i>>, <<i, i, i>>} :
           i \in 0..(n - 1)}
LutInputs ==
  UNION {{[size |-> n, look |-> look, i |-> t[1], j |-> t[2], k |-> t[3]] :
            look \in Looks, t \in Lattice(n)} : n \in 2..MaxLutSize}

InitLut ==
  /\ now = 0 /\ InitDet /\ InitPipe /\ InitApp
  /\ calcIn \in LutInputs
  /\ calcOut = <<>>

\* sampleLUT3D(generate3DLUT(N, look), i/(N-1), j/(N-1), k/(N-1))
SampleLattice ==
  /\ calcOut = <<>>
  /\ LET n == calcIn.size
     IN calcOut' = <<sampleLUT3D(n, calcIn.look, FDivInt(calcIn.i, n - 1),
                                 FDivInt(calcIn.j, n - 1),
                                 FDivInt(calcIn.k, n - 1))>>
  /\ UNCHANGED <<calcIn, now, clapVars, pipeVars, appVars, keyHist>>

NextLut == SampleLattice

SpecLut == InitLut /\ [][NextLut]_vars

(* ---------- filters.js: rgbToHsl and hslToRgb, over exact rationals ---------- *)
RDiv(a, b) ==
  IF b[1] < 0 THEN Norm(<<-(a[1] * b[2]), a[2] * (-b[1])>>)
  ELSE Norm(<<a[1] * b[2], a[2] * b[1]>>)
RMax(a, b) == IF Lt(a, b) THEN b ELSE a
RMin(a, b) == IF Lt(b, a) THEN b ELSE a

\* rgbToHsl(r, g, b)
rgbToHsl(r, g, b) ==
  LET max == RMax(r, RMax(g, b))
      min == RMin(r, RMin(g, b))
      l == RDiv(RAdd(max, min), Whole(2))
      d == RSub(max, min)
      s == IF Gt(l, <<1, 2>>) THEN RDiv(d, RSub(RSub(Whole(2), max), min))
           ELSE RDiv(d, RSub(max, min))
      h == IF max = r
           THEN RAdd(RDiv(RSub(g, b), d), IF Lt(g, b) THEN Whole(6) ELSE Whole(0))
           ELSE IF max = g THEN RAdd(RDiv(RSub(b, r), d), Whole(2))
           ELSE RAdd(RDiv(RSub(r, g), d), Whole(4))
  IN IF max = min THEN <<Whole(0), Whole(0), l>>
     ELSE <<RDiv(h, Whole(6)), s, l>>

\* hue2rgb(p, q, t) of hslToRgb
hue2rgb(p, q, t) ==
  LET t1 == IF Lt(t, Whole(0)) THEN RAdd(t, Whole(1)) ELSE t
      t2 == IF Gt(t1, Whole(1)) THEN RSub(t1, Whole(1)) ELSE t1
  IN IF Lt(t2, <<1, 6>>) THEN RAdd(p, RMul(RMul(RSub(q, p), Whole(6)), t2))
     ELSE IF Lt(t2, <<1, 2>>) THEN q
     ELSE IF Lt(t2, <<2, 3>>)
       THEN RAdd(p, RMul(RMul(RSub(q, p), RSub(<<2, 3>>, t2)), Whole(6)))
     ELSE p

\* hslToRgb(h, s, l)
hslToRgb(h, s, l) ==
  IF s = Whole(0) THEN <<l, l, l>>
  ELSE LET q == IF Lt(l, <<1, 2>>) THEN RMul(l, RAdd(Whole(1), s))
                ELSE RSub(RAdd(l, s), RMul(l, s))
           p == RSub(RMul(Whole(2), l), q)
       IN <<hue2rgb(p, q, RAdd(h, <<1, 3>>)), hue2rgb(p, q, h),
            hue2rgb(p, q, RSub(h, <<1, 3>>))>>

\* channel values tried: the multiples of 1 / ColourSteps in [0, 1]
ColourSteps == 10
Channels == {Norm(<<k, ColourSteps>>) : k \in 0..ColourSteps}

InitHsl ==
  /\ now = 0 /\ InitDet /\ InitPipe /\ InitApp
  /\ calcIn \in Channels \X Channels \X Channels
  /\ calcOut = <<>>

\* rgbToHsl(r, g, b)
ToHsl ==
  /\ calcOut = <<>>
  /\ calcOut' = <<[hsl |-> rgbToHsl(calcIn[1], calcIn[2], calcIn[3]),
                   rgb |-> <<>>]>>
  /\ UNCHANGED <<calcIn, now, clapVars, pipeVars, appVars, keyHist>>

\* hslToRgb(h, s, l) of the triple just computed
ToRgb ==
  /\ calcOut # <<>> /\ calcOut[1].rgb = <<>>
  /\ LET hsl == calcOut[1].hsl
     IN calcOut' = <<[hsl |-> hsl, rgb |-> hslToRgb(hsl[1], hsl[2], hsl[3])]>>
  /\ UNCHANGED <<calcIn, now, clapVars, pipeVars, appVars, keyHist>>

NextHsl == ToHsl \/ ToRgb

SpecHsl == InitHsl /\ [][NextHsl]_vars

(* ---------- filters.js: sobelEdge ---------- *)
\* floor of the square root of a natural
RECURSIVE BSqrtAt(_, _, _, _)
BSqrtAt(a, r, bit, stop) ==
  IF bit < stop THEN r
  ELSE IF BCmp(BMul(BAdd(r, BShl(<<1>>, bit)), BAdd(r, BShl(<<1>>, bit))), a) <= 0
    THEN BSqrtAt(a, BAdd(r, BShl(<<1>>, bit)), bit - 1, stop)
  ELSE BSqrtAt(a, r, bit - 1, stop)
\* the bits of the root, LimbBits at a time from bit down
RECURSIVE BSqrtFrom(_, _, _)
BSqrtFrom(a, r, bit) ==
  IF bit < 0 THEN r
  ELSE With(BSqrtAt(a, r, bit, Max(0, bit - LimbBits + 1)),
            LAMBDA v : BSqrtFrom(a, v, bit - LimbBits))
BSqrt(a) == BSqrtFrom(a, <<>>, BBitLen(a) \div 2)

\* Math.sqrt(x) for x >= 0: r is the root of a = x.m * 2^k, taken with enough
\* bits and an even exponent, and one more bit says whether it is exact
FSqrtRound(a, r, e) ==
  FRound(FALSE, BAdd(BMulSmall(r, 2), IF BMul(r, r) = a THEN <<>> ELSE <<1>>),
         e, DoubleBits)
FSqrtOf(a, e) == FSqrtRound(a, BSqrt(a), e)
FSqrtAt(x, k) == FSqrtOf(BShl(x.m, k), ((x.e - k) \div 2) - 1)
FSqrtBy(x, k0) == FSqrtAt(x, IF (x.e - k0) % 2 = 0 THEN k0 ELSE k0 + 1)
FSqrtFrom(x) ==
  IF x.m = <<>> THEN Zero
  ELSE FSqrtBy(x, Max(0, 2 * DoubleBits + 6 - BBitLen(x.m)))
FSqrt(x) == With(x, FSqrtFrom)

\* storing into a Uint8ClampedArray: clamp to 0..255, round to the nearest
\* integer, a tie to the even one
ToUint8Near(f, frac) ==
  IF FLt(Half, frac) THEN f + 1
  ELSE IF FLt(frac, Half) THEN f
  ELSE IF f % 2 = 0 THEN f ELSE f + 1
ToUint8Floor(v, f) == ToUint8Near(f, FSum(v, FromInt(-f)))
ToUint8From(v) ==
  IF v.neg THEN 0
  ELSE IF FLt(FromInt(255), v) THEN 255
  ELSE ToUint8Floor(v, FFloor(v))
ToUint8Clamp(v) == With(v, ToUint8From)

\* gray[i] = 0.2126 * r + 0.7152 * g + 0.0722 * b, stored in a Float32Array
Gray(r, g, b) ==
  Fround(FAdd(FAdd(FMul(FDivInt(2126, 10000), FromInt(r)),
                   FMul(FDivInt(7152, 10000), FromInt(g))),
              FMul(FDivInt(722, 10000), FromInt(b))))

\* const gx = -tl + tr + -2 * ml + 2 * mr + -bl + br;
Gx(tl, tr, ml, mr, bl, br) ==
  FAdd(FAdd(FAdd(FAdd(FAdd(FNeg(tl), tr), FMul(FromInt(-2), ml)),
                 FMul(FromInt(2), mr)), FNeg(bl)), br)
\* const gy = -tl - 2*tc - tr + bl + 2*bc + br;
Gy_lopsided(tl, tc, tr, bl, bc, br) ==
  FAdd(FAdd(FAdd(FSub(FSub(FNeg(tl), FMul(FromInt(2), tc)), tr), bl),
            FMul(FromInt(2), bc)), FMul(FromInt(2), br))
Gy(tl, tc, tr, bl, bc, br) ==
  FAdd(FAdd(FAdd(FSub(FSub(FNeg(tl), FMul(FromInt(2), tc)), tr), bl),
            FMul(FromInt(2), bc)), br)

\* for (let y = 1; y < h - 1; y++) for (let x = 1; x < w - 1; x++)
Interior_skipFirst(x, y, w, h) == 1 <= y /\ y < h - 1 /\ 2 <= x /\ x < w - 1
Interior(x, y, w, h) == 1 <= y /\ y < h - 1 /\ 1 <= x /\ x < w - 1

\* sobelEdge(imageData, width, height).data; a frame's data is a function
\* on 0..(length - 1)
sobelEdge(src, w, h) ==
  LET gray(p) == Gray(src[4 * p], src[4 * p + 1], src[4 * p + 2])
      mag(gx, gy) == FMul(FSqrt(FAdd(FMul(gx, gx), FMul(gy, gy))), FDivInt(1, 4))
      v(m) == IF FLt(FromInt(255), m) THEN FromInt(255) ELSE m
      value(c) ==
        ToUint8Clamp(v(mag(
          Gx(gray(c - w - 1), gray(c - w + 1), gray(c - 1), gray(c + 1),
             gray(c + w - 1), gray(c + w + 1)),
          Gy(gray(c - w - 1), gray(c - w), gray(c - w + 1), gray(c + w - 1),
             gray(c + w), gray(c + w + 1)))))
  IN [o \in DOMAIN src |->
        LET i == o \div 4
            x == i % w
            y == i \div w
        IN IF Interior(x, y, w, h)
           THEN (IF o % 4 = 3 THEN 255 ELSE value(i))
           ELSE 0]

\* a frame of w x h pixels whose pixel i has the colour pix[i]
FrameOf(w, h, pix) == [o \in 0..(4 * w * h - 1) |-> pix[o \div 4][(o % 4) + 1]]

\* colours of the flat frames, and the two colours of the other frames
Colours ==
  {<<0, 0, 0, 255>>, <<255, 255, 255, 255>>, <<10, 20, 30, 255>>,
   <<255, 0, 0, 128>>, <<13, 200, 77, 0>>, <<1, 1, 1, 255>>}
Ink == <<10, 20, 30, 255>>
Paper == <<200, 100, 50, 255>>
\* sides of the flat frames
Sides == {1, 2, 3, 4}
\* the frames handed to sobelEdge: flat ones of every size and colour, and
\* every 3 x 3 frame in two colours
SobelInputs ==
  {[w |-> w, h |-> h, data |-> FrameOf(w, h, [i \in 0..(w * h - 1) |-> c])] :
     w \in Sides, h \in Sides, c \in Colours}
  \cup {[w |-> 3, h |-> 3, data |-> FrameOf(3, 3, pix)] :
          pix \in [0..8 -> {Ink, Paper}]}

InitSobel ==
  /\ now = 0 /\ InitDet /\ InitPipe /\ InitApp
  /\ calcIn \in SobelInputs
  /\ calcOut = <<>>

\* sobelEdge(frame, w, h): new ImageData(out, width, height)
RunSobel ==
  /\ calcOut = <<>>
  /\ calcOut' = <<[width |-> calcIn.w, height |-> calcIn.h,
                   data |-> sobelEdge(calcIn.data, calcIn.w, calcIn.h)]>>
  /\ UNCHANGED <<calcIn, now, clapVars, pipeVars, appVars, keyHist>>

NextSobel == RunSobel

SpecSobel == InitSobel /\ [][NextSobel]_vars

(* ---------- the detector driven directly ---------- *)

ClapUpdate ==
  \E d \in Dists, both \in BOOLEAN, dt \in ClapSteps :
    /\ now + dt \in Times
    /\ now' = now + dt
    /\ update(d, both, now')
    /\ UNCHANGED <<keyHist, calcVars, pipeVars, appVars>>

NextClap == ClapUpdate

SpecClap == Init /\ [][NextClap]_vars

(* ---------- claims about the clap detector (SpecClap) ---------- *)

\* C1: over update(d, true, now) calls with non-decreasing timestamps, update
\* returns true exactly at the calls made outside cooldown and out of zone
\* with d < thresholdRel and at least minDurationMs since the first call of
\* the current run of below-threshold calls; 0.05 at t = 0, 50, 100 returns
\* false, false, true.
C1_DwellTrigger ==
  [][ /\ handsAlways' =>
          (ret' <=> /\ ~(now' < cooldownUntil)
                    /\ ~inClapZone
                    /\ runStart' # null
                    /\ now' - runStart' >= minDurationMs)
      /\ Len(example') = Len(ExampleT) => example' = <<0, 0, 1>>
    ]_vars
\* the dwell example has run to its third call, which triggered
C1_Witness == example = <<0, 0, 1>> /\ ret /\ handsAlways /\ now = 100

\* C2: after a trigger at time t every call with now < t + cooldownMs returns
\* false, whatever d and bothHands are, so two triggers are at least
\* cooldownMs apart.
C2_Cooldown ==
  [][ (lastTrigger # null /\ now' < lastTrigger + cooldownMs) => ~ret' ]_vars
\* a call inside the cooldown, out of zone after the hands were lost, below
\* the threshold for a full dwell, and yet suppressed
C2_Witness ==
  /\ lastTrigger # null /\ now < lastTrigger + cooldownMs
  /\ ~inClapZone /\ runStart # null /\ now - runStart >= minDurationMs
  /\ lastBoth /\ ~ret

\* C3: while every call after a trigger has both hands and d <= hysteresisUp
\* no further trigger is emitted, and a trigger that follows another one is
\* preceded by a call that put the detector out of zone (hands lost, or
\* d > hysteresisUp seen in zone outside cooldown).
C3_OnePerClap ==
  [][ /\ (linger /\ lastNear') => ~ret'
      /\ (ret' /\ lastTrigger # null) => zoneExit
    ]_vars
\* the hands lingered close past the cooldown and a full dwell: no trigger
C3_Witness ==
  /\ linger /\ ~ret /\ lastNear
  /\ now >= lastTrigger + cooldownMs + minDurationMs
  /\ runStart # null /\ runStart >= lastTrigger + cooldownMs
  /\ now - runStart >= minDurationMs

\* C4: a call with bothHands = false returns false, leaves belowSince absent
\* and inZone false in every prior state, also during cooldown, and leaves
\* cooldownUntil unchanged.
C4_HandsLost ==
  [][ ~lastBoth' => /\ ~ret'
                    /\ belowSince' = null
                    /\ ~inClapZone'
                    /\ cooldownUntil' = cooldownUntil ]_vars
\* hands lost during the cooldown of a trigger: the zone was forced off
C4_Witness ==
  /\ calls /\ ~lastBoth /\ lastTrigger # null
  /\ now < cooldownUntil /\ ~inClapZone /\ belowSince = null

(* ---------- claims about the FilterPipeline (SpecPipe) ---------- *)

\* C8: over any sequence of resize and apply calls the table of every
\* LutGrade key is built at most once, a cached table is never replaced or
\* evicted (not by resize either), and a LutGrade apply draws through the
\* table the cache holds for its key.
C8_LutBuildOnce ==
  [][ /\ \A k \in LutKeys : pipeHist'.lutBuilds[k] <= 1
      /\ \A k \in DOMAIN pipeline.lutCache :
           /\ k \in DOMAIN pipeline'.lutCache
           /\ pipeline'.lutCache[k] = pipeline.lutCache[k]
      /\ target'.op = "lut" =>
           /\ target'.arg \in DOMAIN pipeline'.lutCache
           /\ pipeline'.lutCache[target'.arg].build = target'.lut
           /\ target' # target => target'.hit = (pipeHist.lutBuilds[target'.arg] > 0)
    ]_vars
\* every table is cached, the pipeline was resized afterwards and a LutGrade
\* apply then drew through the cached table
C8_Witness ==
  /\ DOMAIN pipeline.lutCache = LutKeys
  /\ pipeHist.resized
  /\ target.op = "lut" /\ target.hit /\ target.fw = pipeline.w

\* C9: an EdgeDetect apply at non-zero dimensions adds one to the frame
\* counter and recomputes the Sobel map exactly when the new counter is a
\* multiple of skip + 1 or no edge frame is cached; otherwise it writes the
\* cached frame, unchanged, to the target. On a fresh pipeline with skip = 1
\* calls 1, 2 and 4 of the first four recompute.
C9_EdgeThrottle ==
  [][ pipeHist'.edgeLog # pipeHist.edgeLog =>
        LET ec == pipeline.edgeCache
            ec1 == pipeline'.edgeCache
            n == Len(pipeHist'.edgeLog)
            recomputed == pipeHist'.edgeLog[n]
        IN /\ ec1.frameCounter = ec.frameCounter + 1
           /\ n = ec1.frameCounter
           /\ recomputed <=> (ec1.frameCounter % (ec.skip + 1) = 0
                              \/ ec.imageData = NoImage)
           /\ recomputed => /\ ec1.imageData.op = "sobel"
                            /\ ec1.imageData.fw = pipeline.w
                            /\ ec1.imageData.fh = pipeline.h
           /\ ~recomputed => ec1.imageData = ec.imageData
           /\ target' = ec1.imageData
           /\ n >= 4 => SubSeq(pipeHist'.edgeLog, 1, 4) = <<TRUE, TRUE, FALSE, TRUE>>
    ]_vars
\* the third EdgeDetect call wrote the frame cached by the second
C9_Witness ==
  /\ Len(pipeHist.edgeLog) = 3
  /\ pipeHist.edgeLog = <<TRUE, TRUE, FALSE>>
  /\ target = pipeline.edgeCache.imageData
  /\ target.op = "sobel"

\* C10: with skip = 1 no two consecutive EdgeDetect calls on a pipeline both
\* recompute the Sobel map.
C10_EveryOtherFrame ==
  \A i \in 1..(Len(pipeHist.edgeLog) - 1) :
    ~(pipeHist.edgeLog[i] /\ pipeHist.edgeLog[i + 1])

(* ---------- claims about the session (SpecApp) ---------- *)

\* C5: the landmark-result handler advances the filter only if every result
\* received since the dwell timer started had both hands and a normalized
\* distance below thresholdRel, and a result lacking a hand clears the
\* pending dwell.
C5_ContinuousDwell ==
  /\ resHist.fired => ~resHist.firedBroken
  /\ (handsResults # <<>> /\ ~resHist.both) => belowSince = null

\* C6: at most one landmark-inference request is outstanding, handsBusy is
\* true whenever one is, and a request is sent only when handsBusy is false.
C6_SingleInFlight ==
  [][ /\ Len(inflight') <= 1
      /\ Len(inflight') >= 1 => handsBusy'
      /\ Len(inflight') > Len(inflight) => ~handsBusy
    ]_vars
\* a request sent before stop() is still outstanding while the draw loop of
\* the next session runs and the send gap has passed
C6_Witness ==
  /\ Len(inflight) = 1 /\ inflight[1].stale /\ handsBusy
  /\ rafPending /\ videoReady /\ now - lastHandsSend > SendGapMs

\* C7: a landmark result that arrives after stop() for a request issued
\* before stop() leaves the stored landmark result, the smoothers, the clap
\* detector and the filter index unchanged.
C7_StaleDiscarded ==
  [][ (\E i \in 1..Len(inflight) :
         /\ i <= Len(inflight')
         /\ inflight[i].stale
         /\ inflight[i].phase = "sent"
         /\ inflight'[i].phase = "delivered")
      => UNCHANGED <<handsResults, leftSmoother, rightSmoother, detVars,
                     filterIndex>>
    ]_vars

\* C11: the filter index stays within the list after every next, previous,
\* list click and clap trigger; as many nextFilter calls in a row as the list
\* has filters end on the index they started from; prevFilter straight after
\* nextFilter, and nextFilter straight after prevFilter, restore the index.
C11_FilterCycling ==
  [][/\ filterIndex' \in 0..(Len(FilterList) - 1)
     /\ keyHist'.runLen = Len(FilterList) => filterIndex' = keyHist'.runStart
     /\ (keyHist.last = "next" /\ keyHist'.last = "prev")
          => filterIndex' = keyHist.before
     /\ (keyHist.last = "prev" /\ keyHist'.last = "next")
          => filterIndex' = keyHist.before]_vars

\* a full run of next calls, a clap trigger among them, that started away
\* from the first filter and is back on its start
C11_Witness ==
  /\ keyHist.runLen = Len(FilterList) /\ keyHist.runStart = 3
  /\ filterIndex = 3 /\ cooldownUntil > 0

\* C12: a landmark result on which the detector returns true moves the filter
\* index on by exactly one, wrapping at the end of the list; a result on which
\* it returns false, or for which it is not called, leaves the index alone.
C12_TriggerAdvances ==
  [][now' # now
      => filterIndex' = IF resHist'.fired
                        THEN (filterIndex + 1) % Len(FilterList)
                        ELSE filterIndex]_vars

\* a trigger on the last filter has wrapped to the first
C12_Witness ==
  /\ resHist.fired /\ keyHist.last = "next"
  /\ keyHist.before = Len(FilterList) - 1 /\ filterIndex = 0

(* ---------- claims about resize and apply (SpecPipe) ---------- *)

\* C13: while the stored width or the stored height is zero, apply with any
\* key, listed, special or unknown, changes neither the target canvas nor the
\* edge cache (cached frame, frameCounter) nor the LUT cache nor the scratch
\* buffer.
C13_ZeroSizeNoOp ==
  [][((pipeline.w = 0 \/ pipeline.h = 0) /\ pipeHist'.lastKey # "")
      => /\ target' = target
         /\ pipeline'.edgeCache = pipeline.edgeCache
         /\ pipeline'.lutCache = pipeline.lutCache
         /\ pipeline'.pixelCanvas = pipeline.pixelCanvas]_vars

\* the edge key applied to a pipeline of width 640 and height 0 that holds an
\* edge frame and a LUT table from before
C13_Witness ==
  /\ pipeHist.lastKey = "edge"
  /\ pipeline.w = 640 /\ pipeline.h = 0
  /\ pipeline.edgeCache.frameCounter = 1
  /\ DOMAIN pipeline.lutCache # {}
  /\ target.op = "lut"

\* C14 as stated: every key that is not in FilterList gives the unfiltered
\* mirrored frame and touches neither the edge cache nor the LUT cache nor the
\* scratch buffer.
C14_UnknownKeyIdentity ==
  [][(~ZeroSize(pipeline) /\ pipeHist'.lastKey \notin FilterKeys \cup {""})
      => /\ \E src \in Frames :
              target' = Image("mirror", src, "none", 0, FALSE, 0, 0,
                              pipeline.w, pipeline.h)
         /\ pipeline' = pipeline]_vars

\* C14, amended: every key that is not in FilterList and is neither
\* 'pixelate' nor 'edge' gives the unfiltered mirrored frame and leaves the
\* whole pipeline, caches and scratch buffer included, as it was.
C14_UnknownKeyFallback ==
  [][(/\ ~ZeroSize(pipeline)
      /\ pipeHist'.lastKey \notin FilterKeys \cup {"", "pixelate", "edge"})
      => /\ \E src \in Frames :
              target' = Image("mirror", src, "none", 0, FALSE, 0, 0,
                              pipeline.w, pipeline.h)
         /\ pipeline' = pipeline]_vars

\* an unknown key applied over a LUT frame, with an edge frame cached
C14_Witness ==
  /\ pipeHist.lastKey = "sketch"
  /\ target = Image("mirror", 2, "none", 0, FALSE, 0, 0, 780, 1092)
  /\ pipeline.edgeCache.frameCounter = 3
  /\ pipeHist.lutBuilds["wes_pastel"] = 1

\* s = Math.max(32, Math.round(d / 24)), Math.round rounding halves up
IsScratchSide(s, d) ==
  \/ s = 32 /\ d < 24 * 32 + 12
  \/ s > 32 /\ 24 * s - 12 <= d /\ d < 24 * s + 12

\* C20: resize with the stored dimensions changes nothing; any other resize
\* stores the pair and sizes the scratch buffer to max(32, round(w/24)) by
\* max(32, round(h/24)); so whenever apply draws, the scratch buffer has that
\* size for the stored dimensions.
C20_ResizeScratch ==
  [][/\ (pipeHist'.lastKey = "" /\ pipeline'.w = pipeline.w
                                 /\ pipeline'.h = pipeline.h)
         => pipeline' = pipeline /\ target' = target
     /\ (pipeline'.w # pipeline.w \/ pipeline'.h # pipeline.h)
         => /\ IsScratchSide(pipeline'.pixelCanvas.width, pipeline'.w)
            /\ IsScratchSide(pipeline'.pixelCanvas.height, pipeline'.h)
     /\ ~ZeroSize(pipeline')
         => /\ IsScratchSide(pipeline'.pixelCanvas.width, pipeline'.w)
            /\ IsScratchSide(pipeline'.pixelCanvas.height, pipeline'.h)]_vars

\* a pixelated frame drawn at 780 x 1092 through a scratch buffer of 33 x 46
C20_Witness ==
  /\ pipeline.w = 780 /\ pipeline.h = 1092
  /\ pipeline.pixelCanvas = [width |-> 33, height |-> 46]
  /\ target.op = "pixelate" /\ target.sw = 33 /\ target.sh = 46

(* ---------- claims about the drawn pixels (SpecPixel) ---------- *)

\* C15: under the key 'normal', with a source frame of the pipeline's size
\* w x h, target pixel (x, y) shows source pixel (w - 1 - x, y).
C15_Mirroring ==
  (calcOut # <<>> /\ calcIn.key = "normal"
     /\ calcIn.vw = calcIn.w /\ calcIn.vh = calcIn.h)
    => calcOut[1].src = <<calcIn.w - 1 - calcIn.x, calcIn.y>>

\* the pixel next to the left edge of the last row shows the source pixel
\* next to the right edge
C15_Witness ==
  /\ calcOut # <<>> /\ calcIn.key = "normal"
  /\ calcIn.w = 780 /\ calcIn.vw = 780 /\ calcIn.vh = 1092
  /\ calcIn.x = 1 /\ calcIn.y = 1091
  /\ calcOut[1].src = <<778, 1091>>

\* c is a pixel of a side of n pixels nearest to the centre of pixel k of
\* the same side cut into m pixels
IsNearest(c, n, k, m) ==
  /\ c \in 0..(n - 1)
  /\ Abs((2 * c + 1) * m - (2 * k + 1) * n) <= m

\* C19 as stated, for a frame whose pixels all differ: target pixel (x, y)
\* shows scratch cell (floor(x*sw/w), floor(y*sh/h)), and that cell holds a
\* nearest-neighbour sample of the mirrored source.
C19_CornerCell ==
  (calcOut # <<>> /\ calcIn.key = "pixelate")
    => LET sc == ScratchOf(calcIn.w, calcIn.h)
           cell == calcOut[1].cell
           src == calcOut[1].src
       IN /\ cell = <<(calcIn.x * sc.width) \div calcIn.w,
                      (calcIn.y * sc.height) \div calcIn.h>>
          /\ IsNearest(calcIn.vw - 1 - src[1], calcIn.vw, cell[1], sc.width)
          /\ IsNearest(src[2], calcIn.vh, cell[2], sc.height)

\* C19, amended: target pixel (x, y) shows the scratch cell nearest to its
\* centre, which is cell (floor(x*sw/w), floor(y*sh/h)) along a side that is
\* a whole multiple of the scratch side; that cell holds a nearest-neighbour
\* sample of the mirrored source.
C19_NearestCell ==
  (calcOut # <<>> /\ calcIn.key = "pixelate")
    => LET sc == ScratchOf(calcIn.w, calcIn.h)
           cell == calcOut[1].cell
           src == calcOut[1].src
       IN /\ IsNearest(cell[1], sc.width, calcIn.x, calcIn.w)
          /\ IsNearest(cell[2], sc.height, calcIn.y, calcIn.h)
          /\ calcIn.w % sc.width = 0
               => cell[1] = (calcIn.x * sc.width) \div calcIn.w
          /\ calcIn.h % sc.height = 0
               => cell[2] = (calcIn.y * sc.height) \div calcIn.h
          /\ IsNearest(calcIn.vw - 1 - src[1], calcIn.vw, cell[1], sc.width)
          /\ IsNearest(src[2], calcIn.vh, cell[2], sc.height)

\* at 780 x 1092 through a scratch of 33 x 46, target pixel (47, 0) shows
\* cell (2, 0), not cell (1, 0)
C19_Witness ==
  /\ calcOut # <<>> /\ calcIn.key = "pixelate"
  /\ calcIn.w = 780 /\ calcIn.vw = 780 /\ calcIn.x = 47 /\ calcIn.y = 0
  /\ ScratchOf(calcIn.w, calcIn.h).width = 33
  /\ calcOut[1].cell = <<2, 0>>
  /\ (47 * 33) \div 780 = 1

(* ---------- claims about the LUT (SpecLut) ---------- *)

\* the three values stored for lattice point (i, j, k) of the table sampled
StoredAt ==
  LET o == ((calcIn.i * calcIn.size + calcIn.j) * calcIn.size + calcIn.k) * 3
  IN <<LutData(calcIn.size, calcIn.look, o),
       LutData(calcIn.size, calcIn.look, o + 1),
       LutData(calcIn.size, calcIn.look, o + 2)>>

\* C16 as stated: for every size N >= 2 and lattice triple (i, j, k),
\* sampleLUT3D at (i/(N-1), j/(N-1), k/(N-1)) returns exactly the three values
\* stored at ((i*N + j)*N + k)*3.
C16_LatticeExactAnySize ==
  calcOut # <<>> => calcOut[1] = StoredAt

\* C16, amended: the same for the sizes 2 to 22, LUT_SIZE among them, the
\* upper boundary planes included.
C16_LatticeExact ==
  (calcOut # <<>> /\ calcIn.size <= 22) => calcOut[1] = StoredAt

\* the point (N-1, 5, 0) of an upper boundary plane of the table of size
\* LUT_SIZE that keeps the colour: the sample is (1, 5/16, 0)
C16_Witness ==
  /\ calcOut # <<>> /\ calcIn.size = LUT_SIZE /\ calcIn.look = "keep"
  /\ calcIn.i = LUT_SIZE - 1 /\ calcIn.j = 5 /\ calcIn.k = 0
  /\ calcOut[1] = <<One, FDivInt(5, 16), Zero>>

(* ---------- claims about the colour conversions (SpecHsl) ---------- *)

\* C17: for every triple (r, g, b) of [0,1]^3 that is not achromatic,
\* hslToRgb(rgbToHsl(r, g, b)) is (r, g, b) to within a millionth per
\* channel, also when the lightness (max + min) / 2 is at most 0.5.
C17_HslRoundTrip ==
  (/\ calcOut # <<>> /\ calcOut[1].rgb # <<>>
   /\ ~(calcIn[1] = calcIn[2] /\ calcIn[2] = calcIn[3]))
    => \A c \in 1..3 :
         Le(RAbs(RSub(calcOut[1].rgb[c], calcIn[c])), <<1, 1000000>>)

(* ---------- claims about sobelEdge (SpecSobel) ---------- *)

\* every pixel of the frame has the colour of its first pixel
IsFlat(f) ==
  \A o \in DOMAIN f.data : f.data[o] = f.data[o % 4]

\* C18: for a frame of at least 3 x 3 pixels that all have one colour,
\* sobelEdge returns a frame of the same width and height whose interior
\* pixels (1 <= x <= w-2, 1 <= y <= h-2) are all (0, 0, 0, 255).
C18_FlatFrameBlack ==
  (calcOut # <<>> /\ calcIn.w >= 3 /\ calcIn.h >= 3 /\ IsFlat(calcIn))
    => /\ calcOut[1].width = calcIn.w /\ calcOut[1].height = calcIn.h
       /\ DOMAIN calcOut[1].data = 0..(4 * calcIn.w * calcIn.h - 1)
       /\ \A x \in 1..(calcIn.w - 2), y \in 1..(calcIn.h - 2) :
            LET o == 4 * (y * calcIn.w + x)
            IN <<calcOut[1].data[o], calcOut[1].data[o + 1],
                 calcOut[1].data[o + 2], calcOut[1].data[o + 3]>>
               = <<0, 0, 0, 255>>

\* a flat 4 x 3 frame of a colour with three different channels, edged
C18_Witness ==
  /\ calcOut # <<>> /\ calcIn.w = 4 /\ calcIn.h = 3 /\ IsFlat(calcIn)
  /\ calcIn.data[0] = 10 /\ calcIn.data[1] = 20 /\ calcIn.data[2] = 30
  /\ calcOut[1].data[4 * 5 + 3] = 255 /\ calcOut[1].data[4 * 6] = 0

(* ---------- makePointSmoother driven directly ---------- *)
\* most push calls made on one smoother
MaxPushes == 4
\* points pushed
Points == { [x |-> <<1, 10>>, y |-> <<1, 2>>], [x |-> <<9, 20>>, y |-> <<3, 4>>],
            [x |-> <<1, 2>>, y |-> <<1, 10>>] }

\* const leftSmoother = makePointSmoother(0.4): pt = null; calcIn holds the
\* latest call, the push calls so far, those since the creation or the latest
\* reset, and which of the two it was
InitSmooth ==
  /\ now = 0 /\ InitDet /\ InitPipe /\ InitApp
  /\ calcIn = [op |-> "new", at |-> <<>>, pushes |-> 0, run |-> 0,
              after |-> "new"]
  /\ calcOut = <<>>

\* leftSmoother.push(x, y)
SmootherPush ==
  \E p \in Points :
    /\ calcIn.pushes < MaxPushes
    /\ leftSmoother' = Push(leftSmoother, p.x, p.y)
    /\ calcOut' = leftSmoother'
    /\ calcIn' = [op |-> "push", at |-> <<p>>, pushes |-> calcIn.pushes + 1,
                  run |-> calcIn.run + 1, after |-> calcIn.after]
    /\ UNCHANGED <<now, clapVars, pipeVars, keyHist, filterIndex, handsBusy,
                   lastHandsSend, handsResults, videoReady, rafPending, stream,
                   starting, offscreen, rightSmoother, inflight, resHist>>

\* leftSmoother.get()
SmootherGet ==
  /\ calcIn.op # "get"
  /\ calcOut' = leftSmoother
  /\ calcIn' = [calcIn EXCEPT !.op = "get", !.at = <<>>]
  /\ UNCHANGED <<now, clapVars, pipeVars, keyHist, appVars>>

\* leftSmoother.reset()
SmootherReset ==
  /\ leftSmoother' = Reset(leftSmoother)
  /\ calcOut' = <<>>
  /\ calcIn' = [calcIn EXCEPT !.op = "reset", !.at = <<>>, !.run = 0,
                       !.after = "reset"]
  /\ UNCHANGED <<now, clapVars, pipeVars, keyHist, filterIndex, handsBusy,
                 lastHandsSend, handsResults, videoReady, rafPending, stream,
                 starting, offscreen, rightSmoother, inflight, resHist>>

NextSmooth == SmootherPush \/ SmootherGet \/ SmootherReset

SpecSmooth == InitSmooth /\ [][NextSmooth]_vars

(* ---------- claims about the point smoother (SpecSmooth) ---------- *)

\* C21: the first push after creation or after reset() returns exactly the
\* pushed point, every other push returns previous*(1-alpha) + input*alpha
\* on each axis, and get() is absent exactly between a creation or reset and
\* the next push.
C21_SmootherReset ==
  [][ /\ calcIn'.op = "push" =>
           LET p == calcIn'.at[1]
           IN calcOut' =
                IF calcIn.run = 0 THEN <<p>>
                ELSE <<[x |-> RAdd(RMul(leftSmoother[1].x, <<6, 10>>),
                                   RMul(p.x, <<4, 10>>)),
                        y |-> RAdd(RMul(leftSmoother[1].y, <<6, 10>>),
                                   RMul(p.y, <<4, 10>>))]>>
      /\ calcIn'.op = "get" => (calcOut' = <<>> <=> calcIn'.run = 0)
    ]_vars
\* a smoother that held a smoothed point was reset, and the push after the
\* reset returned the pushed point itself
C21_Witness ==
  /\ calcIn.op = "push" /\ calcIn.pushes = 3
  /\ calcIn.after = "reset" /\ calcIn.run = 1
  /\ calcIn.at = <<[x |-> <<1, 10>>, y |-> <<1, 2>>]>>
  /\ calcOut = calcIn.at /\ leftSmoother = calcOut

(* ---------- sampleLUT3D: the lattice indices of a query ---------- *)
\* table sizes queried
QuerySizes == {2, LUT_SIZE}
\* components queried are k/4 for k from -QuerySpan to 4 + QuerySpan
QuerySpan == 3
Quarters(k) == IF k < 0 THEN FNeg(FDivInt(-k, 4)) ELSE FDivInt(k, 4)

\* r0 = Math.floor(r * (n - 1))
axis0(n, c) == FFloor(FMul(c, FromInt(n - 1)))
\* the indices r0, r1, g0, g1, b0, b1 of sampleLUT3D(lut, r, g, b) and the
\* offsets c000 .. c111 at which it starts its eight reads of three values
sampleCorners(n, r, g, b) ==
  LET r0 == axis0(n, r)
      g0 == axis0(n, g)
      b0 == axis0(n, b)
      r1 == axis1(n, r0)
      g1 == axis1(n, g0)
      b1 == axis1(n, b0)
  IN [axes |-> <<r0, r1, g0, g1, b0, b1>>,
      reads |-> <<idx(n, r0, g0, b0), idx(n, r1, g0, b0), idx(n, r0, g1, b0),
                  idx(n, r1, g1, b0), idx(n, r0, g0, b1), idx(n, r1, g0, b1),
                  idx(n, r0, g1, b1), idx(n, r1, g1, b1)>>]

InitQuery ==
  /\ now = 0 /\ InitDet /\ InitPipe /\ InitApp
  /\ calcIn \in [size : QuerySizes, r : (-QuerySpan)..(4 + QuerySpan),
                 g : (-QuerySpan)..(4 + QuerySpan), b : {-1, 0, 2, 4, 5}]
  /\ calcOut = <<>>

\* sampleLUT3D(lut, r/4, g/4, b/4) up to its reads of the table
SampleQuery ==
  /\ calcOut = <<>>
  /\ calcOut' = <<sampleCorners(calcIn.size, Quarters(calcIn.r),
                                Quarters(calcIn.g), Quarters(calcIn.b))>>
  /\ UNCHANGED <<calcIn, now, clapVars, pipeVars, appVars, keyHist>>

NextQuery == SampleQuery

SpecQuery == InitQuery /\ [][NextQuery]_vars

(* ---------- claims about the lattice indices (SpecQuery) ---------- *)

\* C22: for any query triple, components below 0 or above 1 included, every
\* lattice index sampleLUT3D uses on each axis lies in [0, N-1], so that its
\* eight corner reads are inside the table of 3 * N^3 values.
C22_IndexSafety ==
  calcOut # <<>> =>
    LET n == calcIn.size
    IN /\ \A i \in 1..6 : calcOut[1].axes[i] \in 0..(n - 1)
       /\ \A i \in 1..8 : calcOut[1].reads[i] \in 0..(3 * n * n * n - 3)

(* ---------- further claims about the clap detector (SpecClap) ---------- *)

\* C23: an update with both hands present and now < cooldownUntil returns
\* false and leaves belowSince, inClapZone and cooldownUntil unchanged, also
\* when the detector is in zone and d > hysteresisUp, and also when
\* d < thresholdRel.
C23_CooldownFreezes ==
  [][ (lastBoth' /\ now' < cooldownUntil) =>
        /\ ~ret'
        /\ belowSince' = belowSince
        /\ inClapZone' = inClapZone
        /\ cooldownUntil' = cooldownUntil ]_vars
\* a call after the trigger, inside its cooldown, with both hands further
\* apart than hysteresisUp: the detector is still in zone
C23_Witness ==
  /\ lastTrigger # null /\ now > lastTrigger /\ now < cooldownUntil
  /\ lastBoth /\ ~lastNear /\ inClapZone /\ belowSince = null /\ ~zoneExit

\* C24 as stated: if after a trigger some update with both hands observes
\* d > hysteresisUp, at any time after the trigger and also during the
\* cooldown, then the update that completes minDurationMs of updates with
\* both hands and d < thresholdRel made after the cooldown deadline triggers.
C24_RearmAnyTime ==
  [][ (apart /\ lateRun' # null /\ now' - lateRun' >= minDurationMs
         /\ (lateRun = null \/ now - lateRun < minDurationMs))
      => ret' ]_vars

\* C24, amended: the same when the detector was put out of zone after the
\* trigger, by an update made outside the cooldown that saw d > hysteresisUp
\* or by an update without both hands.
C24_Rearm ==
  [][ (zoneExit /\ lateRun' # null /\ now' - lateRun' >= minDurationMs
         /\ (lateRun = null \/ now - lateRun < minDurationMs))
      => ret' ]_vars
\* a second trigger, after the hands were seen further apart than
\* hysteresisUp once the cooldown of the first was over
C24_Witness ==
  /\ ret /\ lastTrigger = now /\ prevTrigger # null /\ handsAlways
  /\ lateRun # null /\ lateRun > prevTrigger + cooldownMs
  /\ now - lateRun >= minDurationMs

\* C25: an update outside cooldown, out of zone, with both hands and
\* d >= thresholdRel clears the dwell timer and returns false; every trigger
\* ends a run of consecutive below-threshold updates that spans at least
\* minDurationMs; as any update with d >= thresholdRel ends the run, the run
\* started after the latest such interruption of a dwell.
C25_DwellCancelled ==
  [][ /\ (lastBoth' /\ runStart' = null /\ ~inClapZone /\ now' >= cooldownUntil)
           => (belowSince' = null /\ ~ret')
      /\ ret' => (runStart' # null /\ now' - runStart' >= minDurationMs)
    ]_vars
\* the first trigger of a detector whose dwell had been running for 50 ms
\* when the hands moved apart: it came minDurationMs after the hands closed
\* again
C25_Witness ==
  /\ ret /\ prevTrigger = null /\ handsAlways
  /\ cancelled /\ runStart = 100 /\ now = 190

\* C26: in zone with both hands present, an update with
\* thresholdRel <= d <= hysteresisUp keeps the detector in zone and changes
\* no state; the zone is left only by an update with d > hysteresisUp made
\* outside cooldown or by an update without both hands, and an update that
\* leaves the zone returns false.
C26_HysteresisBand ==
  [][ /\ (inClapZone /\ lastBoth' /\ lastNear' /\ runStart' = null) =>
           /\ inClapZone'
           /\ belowSince' = belowSince
           /\ cooldownUntil' = cooldownUntil
           /\ ~ret'
      /\ (inClapZone /\ ~inClapZone') =>
           /\ ~lastBoth' \/ (~lastNear' /\ now' >= cooldownUntil)
           /\ ~ret'
    ]_vars
\* the cooldown is over, the hands are in the band or on one of its ends,
\* and the detector is still in zone
C26_Witness ==
  /\ inClapZone /\ lastTrigger # null /\ now >= cooldownUntil
  /\ lastBoth /\ lastNear /\ runStart = null /\ ~zoneExit

\* C28: after any update calls with non-decreasing timestamps the dwell timer
\* and the in-zone flag are never both set, and the dwell timer is absent
\* while the time of the latest call is before cooldownUntil: the state is
\* Idle, Dwelling(start) with a start that is not in the future, or Armed,
\* plus a cooldown deadline.
C28_WellFormed ==
  /\ inClapZone => belowSince = null
  /\ now < cooldownUntil => belowSince = null
  /\ belowSince # null => belowSince <= now
\* Dwelling after an earlier clap: the cooldown is over, the zone was left
\* and a dwell is pending
C28_Witness ==
  /\ lastTrigger # null /\ zoneExit /\ ~inClapZone
  /\ belowSince # null /\ now >= cooldownUntil /\ now > belowSince

(* ---------- further claims about resize and apply (SpecPipe) ---------- *)

\* C27: over any sequence of resize and apply calls, the edge frame that an
\* EdgeDetect apply writes to the target has the pipeline's current
\* dimensions (w, h); a cached edge frame computed before a resize to other
\* dimensions is never written after that resize.
C27_EdgeFrameSize ==
  [][ pipeHist'.edgeLog # pipeHist.edgeLog =>
        (target'.fw = pipeline'.w /\ target'.fh = pipeline'.h) ]_vars

(* ---------- further claims about the landmark results (SpecKeys) ---------- *)

\* C29: after any sequence of landmark results the left and the right
\* smoother are both absent or both present; a result that lacks a hand
\* resets both, and a result with both hands pushes one sample into each
\* before the distance handed to the detector is computed from the two
\* smoothed points.
C29_SmoothersTogether ==
  [][ /\ (leftSmoother' = <<>>) <=> (rightSmoother' = <<>>)
      /\ now' # now =>
           LET res == handsResults'[1]
           IN IF res.left = <<>> \/ res.right = <<>>
              THEN leftSmoother' = <<>> /\ rightSmoother' = <<>>
              ELSE /\ leftSmoother' = Push(leftSmoother, res.left[1].x, res.left[1].y)
                   /\ rightSmoother' = Push(rightSmoother, res.right[1].x, res.right[1].y)
                   /\ lastBoth'
                   /\ lastNear' = Le(NormDist(leftSmoother'[1], rightSmoother'[1]),
                                     hysteresisUp)
                   /\ (runStart' # null) =
                        Lt(NormDist(leftSmoother'[1], rightSmoother'[1]),
                           thresholdRel)
    ]_vars
\* both smoothers hold a point and the left one is smoothed: it is not the
\* palm of the latest result
C29_Witness ==
  /\ resHist.both /\ leftSmoother # <<>> /\ rightSmoother # <<>>
  /\ handsResults[1].left[1].x = <<1, 10>>
  /\ leftSmoother[1].x = <<31, 100>> /\ rightSmoother[1].x = <<1, 2>>

(* ---------- the inference loop of one session, with its scheduling ---------- *)
\* a requestAnimationFrame callback runs draw while video.readyState >= 2
DrawReady ==
  /\ rafPending
  /\ \E src \in Frames : Draw(src, TRUE)
  /\ UNCHANGED <<keyHist, calcVars, now, clapVars, filterIndex, handsResults,
                 videoReady, rafPending, stream, starting, leftSmoother,
                 rightSmoother, resHist>>

\* one session that is not stopped
NextLive ==
  \/ Tick \/ CameraGranted \/ DrawTick
  \/ HandsDeliver \/ HandsResolve \/ HandsReject

\* the clock advances, the browser keeps running the draw callback with the
\* video ready, and every request that is outstanding completes: it delivers
\* its results and resolves, or it rejects
SpecLive ==
  /\ Init /\ [][NextLive]_vars
  /\ WF_vars(Tick) /\ WF_vars(DrawReady)
  /\ WF_vars(HandsDeliver \/ HandsReject) /\ WF_vars(HandsResolve)

\* latest time from which the clock of the model lets the send gap pass
LastSend == MaxAppNow - 50

(* ---------- claims about the inference loop (SpecLive) ---------- *)

\* C30: every landmark-inference request that completes, resolved or
\* rejected, clears handsBusy; provided every outstanding request completes
\* and draw ticks keep occurring with the video ready, a request that is
\* handsBusy is cleared again whenever it is set, and once it is clear and
\* the draw loop runs a new request is sent.
C30_NoLockout ==
  /\ [][Len(inflight') < Len(inflight) => ~handsBusy']_vars
  /\ handsBusy ~> ~handsBusy
  /\ (~handsBusy /\ rafPending /\ now <= LastSend) ~> handsBusy
\* a request is outstanding after an earlier one delivered its results and
\* resolved
C30_Witness ==
  /\ handsBusy /\ Len(inflight) = 1 /\ inflight[1].phase = "sent"
  /\ handsResults # <<>> /\ lastHandsSend >= 2 * SendGapMs

\* C31: in the frame returned by sobelEdge every pixel of the 1-pixel border
\* (x = 0, x = w-1, y = 0 or y = h-1) is transparent black (0, 0, 0, 0)
\* whatever the input, every other pixel has alpha 255 and equal R, G and B
\* in [0, 255], and with width < 3 or height < 3 the whole frame is
\* transparent black.
C31_SobelBorder ==
  calcOut # <<>> =>
    LET w == calcIn.w
        h == calcIn.h
        d == calcOut[1].data
    IN /\ DOMAIN d = 0..(4 * w * h - 1)
       /\ \A x \in 0..(w - 1), y \in 0..(h - 1) :
            LET o == 4 * (y * w + x)
            IN IF x = 0 \/ x = w - 1 \/ y = 0 \/ y = h - 1
               THEN d[o] = 0 /\ d[o + 1] = 0 /\ d[o + 2] = 0 /\ d[o + 3] = 0
               ELSE /\ d[o + 3] = 255
                    /\ d[o] \in 0..255
                    /\ d[o + 1] = d[o] /\ d[o + 2] = d[o]
       /\ (w < 3 \/ h < 3) => \A o \in DOMAIN d : d[o] = 0
\* a 3 x 3 frame in two colours whose corner is opaque and not black: its
\* middle pixel came out grey and opaque, its corner transparent black
C31_Witness ==
  /\ calcOut # <<>> /\ calcIn.w = 3 /\ calcIn.h = 3
  /\ calcIn.data[0] = 200 /\ calcIn.data[3] = 255
  /\ calcOut[1].data[16] > 0 /\ calcOut[1].data[16] < 255
  /\ calcOut[1].data[17] = calcOut[1].data[16]
  /\ calcOut[1].data[19] = 255
  /\ calcOut[1].data[0] = 0 /\ calcOut[1].data[3] = 0

====
